---- MODULE Spec2Model ----
(***************************************************************************)
(* Timing and edit-point resolution of the Music-XML-and-Audio-Editor.     *)
(*                                                                         *)
(* Times are exact integers in microseconds, tempi are quarter-note BPM,   *)
(* beats_per_measure and effective_tempo are kept in twelfths (the code's  *)
(* factors 1/3, 2/3, 4/denominator and denominator/4 are all whole numbers *)
(* of twelfths for the denominators 2, 4, 8 and 16).  The arithmetic is    *)
(* the code's, carried out over the rationals instead of IEEE doubles.     *)
(*                                                                         *)
(* A score is a sequence of parts, a part a sequence of measures, a        *)
(* measure a record [number, ts, mark, label]: its number, the time        *)
(* signature it carries (NoTS when none), the metronome mark it carries    *)
(* (NoMark when none) and the text expression it carries, as a sequence   *)
(* of words (<<>> when none).                                              *)
(* The key signature is an opaque pass-through and is left out.            *)
(***************************************************************************)
EXTENDS Integers, Sequences, FiniteSets, TLC

VARIABLES
  inp,   \* the input of the single-object specifications (a score / a beat file)
  ed,    \* MusicEditor: sections, using_text_tempo, tempo_changes, has_ttp
  me,    \* music_editor.ScoreProcessor (MusicEditor.score_processor) and its analyzer
  ttp,   \* TextTempoProcessor (MusicEditor.text_tempo_processor when ed.has_ttp)
  sp,    \* processors.score_processor.ScoreProcessor and its analyzer
  tmp,   \* TempoMapProcessor
  ap,    \* AudioProcessor: audio_segment, and the previews since the audio was loaded
  ret    \* what the last call returned

vars == <<inp, ed, me, ttp, sp, tmp, ap, ret>>

----------------------------------------------------------------------------
(* Bounds of the model *)

MaxMeasures == 4
MaxParts == 2
\* previews generated from one loaded audio
MaxPreviews == 2
MaxRows == 3

(* Program constants *)

DefaultTempo == 80
CountdownBeats == 5

(* Scales and values *)

TimeUnit == 1000 * 1000
Twelfths == 3 * 4
NoTS == <<0, 0>>
NoMark == 0 - 1
NoTime == 0 - 1
EmptyMap == <<>>

Put(f, k, v) == [x \in (DOMAIN f) \cup {k} |-> IF x = k THEN v ELSE f[x]]

\* sorted(...) of a set of numbers
SortedKeys(S) ==
  LET F[T \in SUBSET S] ==
        IF T = {} THEN <<>>
        ELSE LET x == CHOOSE x \in T : \A y \in T : x <= y IN <<x>> \o F[T \ {x}]
  IN F[S]

Max(S) == CHOOSE x \in S : \A y \in S : y <= x
Min(S) == CHOOSE x \in S : \A y \in S : x <= y

\* str.lower() on the words the model writes in commands and markers
Lower(word) ==
  CASE word = "Intro" -> "intro"
    [] word = "Verse" -> "verse"
    [] word = "Chorus" -> "chorus"
    [] word = "Verse1" -> "verse1"
    [] word = "Chorus1" -> "chorus1"
    [] word = "Verse2" -> "verse2"
    [] word = "Remove" -> "remove"
    [] word = "Keep" -> "keep"
    [] OTHER -> word

\* the words of a text as one stripped string
JoinWords(chunk) ==
  LET F[i \in 1..Len(chunk)] == IF i = 1 THEN chunk[1] ELSE F[i - 1] \o " " \o chunk[i]
  IN F[Len(chunk)]

----------------------------------------------------------------------------
(* ScoreAnalyzer *)

\* score.parts[0].getElementsByClass('Measure'), first occurrence of every
\* measure number, sorted by number
UniqueMeasures(score) ==
  LET First(part, n) == part[Min({i \in 1..Len(part) : part[i].number = n})]
      Sorted(part, nums) == [k \in 1..Len(nums) |-> First(part, nums[k])]
      Numbers(part) == SortedKeys({part[i].number : i \in 1..Len(part)})
  IN Sorted(score[1], Numbers(score[1]))

\* score.recurse().getElementsByClass('Measure'): every measure of every part,
\* in document order
AllMeasures(score) ==
  LET F[p \in 0..Len(score)] == IF p = 0 THEN <<>> ELSE F[p - 1] \o score[p]
  IN F[Len(score)]

NoCountdown == [has_countdown |-> FALSE, main |-> NoTS]

\* has_countdown_measure: the first measure is in 9/4 and the second has
\* another numerator; the main signature is then that of the second measure
has_countdown_measure(score) ==
  LET Compare(first_ts, second_ts) ==
        IF first_ts = NoTS \/ second_ts = NoTS THEN NoCountdown
        ELSE IF first_ts[1] = 9 /\ first_ts[2] = 4 /\ second_ts[1] # first_ts[1]
             THEN [has_countdown |-> TRUE, main |-> second_ts]
             ELSE NoCountdown
      Check(measures) ==
        IF Len(measures) < 2 THEN NoCountdown
        ELSE Compare(measures[1].ts, measures[2].ts)
  IN Check(UniqueMeasures(score))

\* the signature in force at position i of the sorted unique measures: the
\* last one carried at or before it (NoTS before the first)
ActiveTS(measures, i) ==
  LET Last(S) == IF S = {} THEN NoTS ELSE measures[Max(S)].ts
  IN Last({j \in 1..i : measures[j].ts # NoTS})

\* 'final' of analyze_time_signature; NoTS stands for its error result.
\* Without a countdown it is the signature with the most measures, the
\* first one met among equals.
analyze_time_signature(score) ==
  LET Count(measures, s) ==
        Cardinality({i \in 1..Len(measures) : ActiveTS(measures, i) = s})
      FirstAt(measures, s) == Min({i \in 1..Len(measures) : measures[i].ts = s})
      Earliest(measures, best) ==
        CHOOSE s \in best : \A t \in best : FirstAt(measures, s) <= FirstAt(measures, t)
      MostCommon(measures, sigs) ==
        IF sigs = {} THEN NoTS
        ELSE Earliest(measures,
                      {s \in sigs : \A t \in sigs : Count(measures, t) <= Count(measures, s)})
      Final(cd, measures) ==
        IF cd.has_countdown THEN cd.main
        ELSE MostCommon(measures, {measures[i].ts : i \in 1..Len(measures)} \ {NoTS})
  IN Final(has_countdown_measure(score), UniqueMeasures(score))

section_keywords ==
  {"verse", "chorus", "bridge", "intro", "outro", "solo", "pre-chorus", "interlude",
   "refrain", "coda"}

\* of the words the model writes in markers, those with one of '7', '9',
\* 'maj', 'min', 'm7', 'dim', 'aug', 'sus' in them
ChordLike(word) == word \in {"Am7", "7", "9"}

\* the test of analyze_structure on the text of an expression, a sequence of
\* words: not empty, no chord-like characters, and a keyword that is the whole
\* lowercased text or a whole word of it
is_section(text) ==
  /\ text # <<>>
  /\ \A i \in 1..Len(text) : ~ChordLike(text[i])
  /\ \E i \in 1..Len(text) : Lower(text[i]) \in section_keywords

\* 'sections' of analyze_structure: a marker opens a section, named by its
\* text as written, that runs to the measure before the next marker, the last
\* one to the last measure
analyze_structure(score) ==
  LET EndOf(measures, later) ==
        IF later = {} THEN Max({measures[j].number : j \in 1..Len(measures)})
        ELSE measures[Min(later)].number - 1
      Range(measures, marked, i) ==
        <<measures[i].number, EndOf(measures, {j \in marked : j > i})>>
      LastAt(measures, marked, nm) ==
        Max({i \in marked : JoinWords(measures[i].label) = nm})
      Sections(measures, marked) ==
        [nm \in {JoinWords(measures[i].label) : i \in marked} |->
           Range(measures, marked, LastAt(measures, marked, nm))]
      Marked(measures) == {i \in 1..Len(measures) : is_section(measures[i].label)}
  IN Sections(UniqueMeasures(score), Marked(UniqueMeasures(score)))

\* 'tempo_changes' of analyze_timing: the mark of the first measure (the
\* default tempo without one), then every later mark that differs from the
\* tempo in force
analyze_timing(score) ==
  LET Visit(p, m) ==
        IF m.mark # NoMark /\ m.mark # p.cur
        THEN [cur |-> m.mark,
              out |-> Append(p.out, [measure |-> m.number, tempo |-> m.mark])]
        ELSE p
      Start(t0) == [cur |-> t0, out |-> <<[measure |-> 1, tempo |-> t0]>>]
      Changes(measures) ==
        LET F[i \in 1..Len(measures)] ==
              IF i = 1
              THEN Start(IF measures[1].mark # NoMark THEN measures[1].mark
                         ELSE DefaultTempo)
              ELSE Visit(F[i - 1], measures[i])
        IN F[Len(measures)].out
  IN Changes(UniqueMeasures(score))

----------------------------------------------------------------------------
(* The measure arithmetic of the two timeline builders.  A result is        *)
(* [beats, eff, duration]: beats_per_measure and effective_tempo in         *)
(* twelfths, measure_duration in microseconds.  The caller has checked      *)
(* that current_tempo is not 0 (a division by zero in the code).            *)

SecondsPerBeat(eff) == (60 * TimeUnit * Twelfths) \div eff

\* measure_duration = beats_per_measure * (60.0 / effective_tempo)
BeatsAtTempo(beats, eff) ==
  [beats |-> beats, eff |-> eff,
   duration |-> (beats * SecondsPerBeat(eff)) \div Twelfths]

\* a builder without the compound branch: denominator 8 falls to the
\* formula of the other denominators
ME_measure_no_compound(numerator, denominator, current_tempo) ==
  IF denominator = 4
  THEN BeatsAtTempo(numerator * Twelfths, current_tempo * Twelfths)
  ELSE BeatsAtTempo(numerator * ((4 * Twelfths) \div denominator),
                    current_tempo * ((denominator * Twelfths) \div 4))

\* music_editor.py: compound (numerator / 3 beats at tempo * 2/3), simple
\* quarter, and the other denominators (numerator * 4 / denominator beats
\* at tempo * denominator / 4)
ME_measure(numerator, denominator, current_tempo) ==
  IF denominator = 8
  THEN BeatsAtTempo(numerator * (Twelfths \div 3), current_tempo * ((2 * Twelfths) \div 3))
  ELSE IF denominator = 4
  THEN BeatsAtTempo(numerator * Twelfths, current_tempo * Twelfths)
  ELSE BeatsAtTempo(numerator * ((4 * Twelfths) \div denominator),
                    current_tempo * ((denominator * Twelfths) \div 4))

\* the while loop that moves tempo_index to the last change at or before the
\* measure (indices are 1-based here)
AdvanceTempo(tempo_changes, idx, measure_number) ==
  LET F[i \in idx..Len(tempo_changes)] ==
        IF i + 1 <= Len(tempo_changes) /\ tempo_changes[i + 1].measure <= measure_number
        THEN F[i + 1] ELSE i
  IN F[idx]

\* the signature a builder uses for a measure: its own, else the global one,
\* else 4/4
MeasureTS(m, time_signature) ==
  IF m.ts # NoTS THEN m.ts
  ELSE IF time_signature # NoTS THEN time_signature
  ELSE <<4, 4>>

\* the state of the loop over the measures: the table so far, current_time
\* and tempo_index
LoopStart == [ok |-> TRUE, times |-> EmptyMap, t |-> 0, idx |-> 1]

Stored(p, number, idx, record) ==
  [ok |-> TRUE, times |-> Put(p.times, number, record), t |-> record.end, idx |-> idx]

\* self.measure_times[measure_number] = {...} of music_editor.py
ME_record(start, current_tempo, sig, r) ==
  [start |-> start,
   end |-> start + r.duration,
   duration |-> r.duration,
   tempo |-> current_tempo,
   effective_tempo |-> r.eff,
   time_signature |-> sig,
   beats_per_measure |-> r.beats]

\* music_editor.ScoreProcessor._calculate_measure_times on the processor
\* state st; the result is [st, ok].  The loop visits every measure of
\* every part; measure_times is assigned measure by measure, so a failure
\* inside the loop leaves what was stored so far.
ME_calculate_measure_times(st) ==
  LET Measure(p, m, idx, sig, current_tempo) ==
        IF current_tempo = 0 THEN [p EXCEPT !.ok = FALSE]
        ELSE Stored(p, m.number, idx,
                    ME_record(p.t, current_tempo, sig,
                              ME_measure(sig[1], sig[2], current_tempo)))
      AtTempo(p, m, idx) ==
        Measure(p, m, idx, MeasureTS(m, st.time_signature), st.tempo_changes[idx].tempo)
      Visit(p, m) ==
        IF ~p.ok THEN p
        ELSE AtTempo(p, m, AdvanceTempo(st.tempo_changes, p.idx, m.number))
      Done(measures, res) ==
        [st |-> [st EXCEPT !.measure_times = res.times],
         ok |-> res.ok /\ measures # <<>>]
      Loop(measures) ==
        LET F[i \in 0..Len(measures)] ==
              IF i = 0 THEN LoopStart ELSE Visit(F[i - 1], measures[i])
        IN Done(measures, F[Len(measures)])
  IN IF st.tempo_changes = <<>> THEN [st |-> st, ok |-> FALSE]
     ELSE Loop(AllMeasures(st.score))

\* TempoChange list of a tempo-map score: one entry per metronome mark of
\* every measure of every part, in document order
TempoMapMarks(tempo_map) ==
  LET Entry(m) == [measure |-> m.number, tempo |-> m.mark]
      Marked(measures) == SelectSeq(measures, LAMBDA m : m.mark # NoMark)
      Entries(marked) == [i \in 1..Len(marked) |-> Entry(marked[i])]
  IN Entries(Marked(AllMeasures(tempo_map)))

\* music_editor.ScoreProcessor.load_tempo_map
ME_load_tempo_map(st, tempo_map) ==
  LET Loaded(tc) == [st |-> [st EXCEPT !.tempo_changes = tc], ok |-> tc # <<>>]
  IN Loaded(TempoMapMarks(tempo_map))

\* music_editor.ScoreProcessor.process_score
ME_process_score(st, use_tempo_map) ==
  LET Sections(c) ==
        IF ~c.ok THEN c
        ELSE [st |-> [c.st EXCEPT !.sections = analyze_structure(st.score)], ok |-> TRUE]
      Tempo(s1) ==
        IF use_tempo_map
        THEN IF s1.tempo_changes = <<>> THEN [st |-> s1, ok |-> FALSE]
             ELSE Sections(ME_calculate_measure_times(s1))
        ELSE Sections(ME_calculate_measure_times(
                        [s1 EXCEPT !.tempo_changes = analyze_timing(st.score)]))
      Signature(final) ==
        IF final = NoTS THEN [st |-> st, ok |-> FALSE]
        ELSE Tempo([st EXCEPT !.time_signature = final])
  IN Signature(analyze_time_signature(st.score))

\* music_editor.ScoreProcessor.get_section_timing: None (NoTiming) without
\* sections or measure times, else a record for every section whose two
\* boundary measures are in measure_times
NoTiming == [none |-> TRUE, map |-> EmptyMap]

SomeTiming(m) == [none |-> FALSE, map |-> m]

SectionRecord(table, range) ==
  [start |-> table[range[1]].start,
   end |-> table[range[2]].end,
   duration |-> table[range[2]].end - table[range[1]].start,
   start_measure |-> range[1],
   end_measure |-> range[2]]

\* the sections whose start and end measure are both keys of the table
Resolvable(sections, table) ==
  {nm \in DOMAIN sections :
     sections[nm][1] \in DOMAIN table /\ sections[nm][2] \in DOMAIN table}

ME_get_section_timing(st) ==
  IF DOMAIN st.sections = {} \/ DOMAIN st.measure_times = {} THEN NoTiming
  ELSE SomeTiming([nm \in Resolvable(st.sections, st.measure_times) |->
                     SectionRecord(st.measure_times, st.sections[nm])])

----------------------------------------------------------------------------
(* processors.score_processor.ScoreProcessor *)

\* a builder without the branch of the other denominators: every
\* denominator but 8 is timed as a quarter
SP_measure_quarters_only(numerator, denominator, current_tempo) ==
  IF denominator = 8
  THEN [beats |-> numerator * (Twelfths \div 3),
        eff |-> current_tempo * ((2 * Twelfths) \div 3),
        duration |-> (((60 * TimeUnit) \div current_tempo) * numerator) \div 2]
  ELSE BeatsAtTempo(numerator * Twelfths, current_tempo * Twelfths)

\* score_processor.py: the compound branch multiplies the seconds of a
\* quarter note by numerator / 2, the other two are those of music_editor.py
SP_measure(numerator, denominator, current_tempo) ==
  IF denominator = 8
  THEN [beats |-> numerator * (Twelfths \div 3),
        eff |-> current_tempo * ((2 * Twelfths) \div 3),
        duration |-> (((60 * TimeUnit) \div current_tempo) * numerator) \div 2]
  ELSE IF denominator = 4
  THEN BeatsAtTempo(numerator * Twelfths, current_tempo * Twelfths)
  ELSE BeatsAtTempo(numerator * ((4 * Twelfths) \div denominator),
                    current_tempo * ((denominator * Twelfths) \div 4))

\* the countdown measure: exactly 5 beats at the current tempo
SP_countdown(current_tempo) ==
  [beats |-> CountdownBeats * Twelfths,
   eff |-> current_tempo * Twelfths,
   duration |-> ((60 * TimeUnit) \div current_tempo) * CountdownBeats]

\* self.measure_times[measure_number] = {...} of score_processor.py
SP_record(start, current_tempo, sig, r, is_countdown) ==
  [start |-> start,
   end |-> start + r.duration,
   duration |-> r.duration,
   tempo |-> current_tempo,
   effective_tempo |-> r.eff,
   time_signature |-> sig,
   beats_per_measure |-> r.beats,
   is_countdown |-> is_countdown]

\* ScoreProcessor._calculate_measure_times of score_processor.py: the
\* measures of the first part, every number once, in ascending order
SP_calculate_measure_times(st) ==
  LET Measure(p, m, idx, sig, current_tempo, cd) ==
        IF current_tempo = 0 THEN [p EXCEPT !.ok = FALSE]
        ELSE Stored(p, m.number, idx,
                    SP_record(p.t, current_tempo, sig,
                              IF cd THEN SP_countdown(current_tempo)
                              ELSE SP_measure(sig[1], sig[2], current_tempo),
                              cd))
      AtTempo(p, m, idx, has_countdown) ==
        Measure(p, m, idx, MeasureTS(m, st.time_signature), st.tempo_changes[idx].tempo,
                has_countdown /\ m.number = 1)
      Visit(p, m, has_countdown) ==
        IF ~p.ok THEN p
        ELSE AtTempo(p, m, AdvanceTempo(st.tempo_changes, p.idx, m.number), has_countdown)
      Done(measures, res) ==
        [st |-> [st EXCEPT !.measure_times = res.times],
         ok |-> res.ok /\ measures # <<>>]
      Loop(measures, has_countdown) ==
        LET F[i \in 0..Len(measures)] ==
              IF i = 0 THEN LoopStart ELSE Visit(F[i - 1], measures[i], has_countdown)
        IN Done(measures, F[Len(measures)])
  IN IF st.tempo_changes = <<>> THEN [st |-> st, ok |-> FALSE]
     ELSE Loop(UniqueMeasures(st.score), has_countdown_measure(st.score).has_countdown)

\* the tempo changes process_score keeps for "score_tempo_map": those after
\* measure 1, or the only one
SP_tempo_markers(changes) ==
  SelectSeq(changes, LAMBDA c : c.measure > 1 \/ Len(changes) = 1)

\* ScoreProcessor.process_score(score_file, timing_source); the analyzer is
\* None after construction and the call fails until the caller sets one
SP_process_score(st, score, timing_source) ==
  LET Markers(s1, tempo_changes) ==
        IF tempo_changes = <<>> THEN [st |-> s1, ok |-> FALSE]
        ELSE SP_calculate_measure_times([s1 EXCEPT !.tempo_changes = tempo_changes])
      Timing(s1, changes) ==
        IF timing_source = "text_tempo_map"
        THEN [st |-> [s1 EXCEPT !.tempo_changes = <<>>, !.measure_times = EmptyMap],
              ok |-> TRUE]
        ELSE IF timing_source = "score_tempo_map"
        THEN Markers(s1, SP_tempo_markers(changes))
        ELSE Markers(s1, <<[measure |-> 1, tempo |-> changes[1].tempo]>>)
      Loaded(s0, final) ==
        IF final = NoTS THEN [st |-> s0, ok |-> FALSE]
        ELSE Timing([s0 EXCEPT !.time_signature = final,
                               !.sections = analyze_structure(score)],
                    analyze_timing(score))
  IN IF ~st.has_analyzer
     THEN [st |-> [st EXCEPT !.measure_times = EmptyMap], ok |-> FALSE]
     ELSE Loaded([st EXCEPT !.measure_times = EmptyMap, !.score = score],
                 analyze_time_signature(score))

\* ScoreProcessor.get_section_timing of score_processor.py: with measure
\* times as above; without any, a record of the two measure numbers alone
\* for every section
MeasuresOnly(range) == [start_measure |-> range[1], end_measure |-> range[2]]

SP_get_section_timing(st) ==
  IF DOMAIN st.sections = {} THEN NoTiming
  ELSE IF DOMAIN st.measure_times # {}
  THEN SomeTiming([nm \in Resolvable(st.sections, st.measure_times) |->
                     SectionRecord(st.measure_times, st.sections[nm])])
  ELSE SomeTiming([nm \in DOMAIN st.sections |-> MeasuresOnly(st.sections[nm])])

----------------------------------------------------------------------------
(* Beat maps.  A file is a sequence of rows [beat, time, type]: the beat    *)
(* number, the raw time and the beat type as written in the file.           *)

RawTypes == {"s", "w", " S", "x"}

\* str.strip().str.lower() on the beat types the model writes in files
Normalize(type) ==
  CASE type = " S" -> "s"
    [] type = "S" -> "s"
    [] type = " s" -> "s"
    [] OTHER -> type

ValidBeatTypes == {"s", "w", "l"}

\* _get_beat_time / get_beat_timing: the time of the first entry with that
\* beat number, None (NoTime) when there is none
BeatTime(beat_timings, beat_number) ==
  LET First(S) == IF S = {} THEN NoTime ELSE beat_timings[Min(S)].time
  IN First({i \in 1..Len(beat_timings) : beat_timings[i].beat = beat_number})

AdjustedTimings(rows, offset) ==
  [i \in 1..Len(rows) |-> [beat |-> rows[i].beat, time |-> rows[i].time - offset]]

BeatsOf(rows) == [i \in 1..Len(rows) |-> rows[i].beat]

\* an entry whose real times are the adjusted ones
TTP_entry_adjusted_only(start_beat, end_beat, start_time, end_time, initial_offset) ==
  [start_beat |-> start_beat,
   end_beat |-> end_beat,
   start_time |-> start_time,
   end_time |-> end_time,
   real_start_time |-> start_time,
   real_end_time |-> end_time,
   duration |-> end_time - start_time]

\* an entry of TextTempoProcessor.measure_map
TTP_entry(start_beat, end_beat, start_time, end_time, initial_offset) ==
  [start_beat |-> start_beat,
   end_beat |-> end_beat,
   start_time |-> start_time,
   end_time |-> end_time,
   real_start_time |-> start_time + initial_offset,
   real_end_time |-> end_time + initial_offset,
   duration |-> end_time - start_time]

\* TextTempoProcessor.map_measures_to_time: a measure from every strong
\* beat to the next, the last one to the last row; entries are written into
\* the measure_map the processor already holds
TTP_map_measures_to_time(st) ==
  LET Pair(map, i, start_time, end_time) ==
        IF start_time # NoTime /\ end_time # NoTime
        THEN Put(map, i, TTP_entry(st.strong_beats[i], st.strong_beats[i + 1] - 1,
                                   start_time, end_time, st.initial_offset))
        ELSE map
      Last(map, k, last_time, final) ==
        IF last_time # NoTime
        THEN Put(map, k, TTP_entry(st.strong_beats[k], final.beat,
                                   last_time, final.time, st.initial_offset))
        ELSE map
      Pairs(k) ==
        LET F[i \in 0..(k - 1)] ==
              IF i = 0 THEN st.measure_map
              ELSE Pair(F[i - 1], i, BeatTime(st.beat_timings, st.strong_beats[i]),
                        BeatTime(st.beat_timings, st.strong_beats[i + 1]))
        IN F[k - 1]
      Map(k) ==
        Last(Pairs(k), k, BeatTime(st.beat_timings, st.strong_beats[k]),
             st.beat_timings[Len(st.beat_timings)])
  IN IF st.strong_beats = <<>> THEN st
     ELSE [st EXCEPT !.measure_map = Map(Len(st.strong_beats))]

\* TextTempoProcessor._process_beat_timings on the cleaned rows
TTP_process_beat_timings(st, rows) ==
  [st EXCEPT !.beat_timings = AdjustedTimings(rows, st.initial_offset),
             !.strong_beats = BeatsOf(SelectSeq(rows, LAMBDA r : Normalize(r.type) = "s")),
             !.total_duration = IF rows # <<>>
                                THEN rows[Len(rows)].time - st.initial_offset ELSE @]

\* TextTempoProcessor.process_tempo_file; the result is [st, ok, err]
TTP_process_tempo_file(st, rows, time_signature) ==
  LET Mapped(s3) ==
        IF DOMAIN s3.measure_map = {}
        THEN [st |-> s3, ok |-> FALSE, err |-> "Failed to create measure map"]
        ELSE [st |-> s3, ok |-> TRUE, err |-> ""]
      Timed(s2) ==
        IF s2.strong_beats = <<>>
        THEN [st |-> s2, ok |-> FALSE, err |-> "No strong beats found in tempo file"]
        ELSE Mapped(TTP_map_measures_to_time(s2))
  IN IF rows = <<>> THEN [st |-> st, ok |-> FALSE, err |-> "Empty tempo file"]
     ELSE IF \E i \in 1..Len(rows) : Normalize(rows[i].type) \notin ValidBeatTypes
     THEN [st |-> st, ok |-> FALSE, err |-> "Invalid beat types in tempo file"]
     ELSE Timed(TTP_process_beat_timings(
                  [st EXCEPT !.initial_offset = rows[1].time,
                             !.time_signature = time_signature], rows))

\* TextTempoProcessor.get_section_timing(start_measure, end_measure)
TTP_get_section_timing(st, range) ==
  IF range[1] \notin DOMAIN st.measure_map \/ range[2] \notin DOMAIN st.measure_map
  THEN NoTiming
  ELSE SomeTiming([start |-> st.measure_map[range[1]].real_start_time,
                   end |-> st.measure_map[range[2]].real_end_time,
                   duration |-> st.measure_map[range[2]].real_end_time
                                  - st.measure_map[range[1]].real_start_time,
                   start_measure |-> range[1],
                   end_measure |-> range[2]])

TTP_new ==
  [beat_timings |-> <<>>, strong_beats |-> <<>>, measure_map |-> EmptyMap,
   initial_offset |-> 0, total_duration |-> 0, time_signature |-> NoTS]

----------------------------------------------------------------------------
(* TempoMapProcessor *)

\* the average tempo of a span, 60 / mean(beat durations), as a fraction;
\* 0 with fewer than two samples.  The caller has checked that the mean is
\* not 0 (a division by zero in the code).
NoTempo == [num |-> 0, den |-> 1]

SpanTempo(times) ==
  IF Len(times) > 1
  THEN [num |-> 60 * TimeUnit * (Len(times) - 1),
        den |-> times[Len(times)].time - times[1].time]
  ELSE NoTempo

SpanFails(times) == Len(times) > 1 /\ times[Len(times)].time = times[1].time

\* TempoMapProcessor._create_measure_mapping; [st, ok], not ok for the
\* division by zero, which leaves the entries written before it
TMP_create_measure_mapping(st) ==
  LET Entry(p, i, end_beat, end_time, span) ==
        IF ~p.ok THEN p
        ELSE IF SpanFails(span) THEN [p EXCEPT !.ok = FALSE]
        ELSE [ok |-> TRUE,
              map |-> Put(p.map, i,
                          [start_beat |-> st.strong_beats[i],
                           end_beat |-> end_beat,
                           start_time |-> BeatTime(st.beat_timings, st.strong_beats[i]),
                           end_time |-> end_time,
                           tempo |-> SpanTempo(span)])]
      Pair(p, i, start_beat, next_beat) ==
        Entry(p, i, next_beat - 1, BeatTime(st.beat_timings, next_beat),
              SelectSeq(st.beat_timings, LAMBDA b : start_beat <= b.beat /\ b.beat < next_beat))
      Last(p, k, last_start) ==
        Entry(p, k, st.total_beats - 1, BeatTime(st.beat_timings, st.total_beats - 1),
              SelectSeq(st.beat_timings, LAMBDA b : b.beat >= last_start))
      Pairs(k) ==
        LET F[i \in 0..(k - 1)] ==
              IF i = 0 THEN [ok |-> TRUE, map |-> st.measure_map]
              ELSE Pair(F[i - 1], i, st.strong_beats[i], st.strong_beats[i + 1])
        IN F[k - 1]
      Done(res) == [st |-> [st EXCEPT !.measure_map = res.map], ok |-> res.ok]
      Map(k) == Done(Last(Pairs(k), k, st.strong_beats[k]))
  IN IF st.strong_beats = <<>> THEN [st |-> st, ok |-> TRUE]
     ELSE Map(Len(st.strong_beats))

\* TempoMapProcessor.process_tempo_file.  read_csv raises on a file without
\* rows and the handler returns the failure; no other input is validated,
\* and the strong beats are the rows whose type is 's' as written.
TMP_process_tempo_file(st, rows, time_signature) ==
  IF rows = <<>> THEN [st |-> st, ok |-> FALSE]
  ELSE TMP_create_measure_mapping(
         [st EXCEPT !.initial_offset = rows[1].time,
                    !.total_duration = rows[Len(rows)].time,
                    !.beat_timings = AdjustedTimings(rows, rows[1].time),
                    !.strong_beats = BeatsOf(SelectSeq(rows, LAMBDA r : r.type = "s")),
                    !.total_beats = Len(rows),
                    !.time_signature = time_signature])

TMP_new ==
  [beat_timings |-> <<>>, strong_beats |-> <<>>, total_beats |-> 0,
   measure_map |-> EmptyMap, time_signature |-> NoTS,
   total_duration |-> 0, initial_offset |-> 0]

----------------------------------------------------------------------------
(* CommandProcessor.  A command text is a sequence of tokens: words, and    *)
(* the separators ",", "and" and ".".                                       *)

\* str.split: the chunks of seq between the tokens of seps, empty ones too
Split(seq, seps) ==
  LET Visit(p, w) ==
        IF w \in seps THEN [done |-> Append(p.done, p.cur), cur |-> <<>>]
        ELSE [done |-> p.done, cur |-> Append(p.cur, w)]
      Close(p) == Append(p.done, p.cur)
      F[i \in 0..Len(seq)] ==
        IF i = 0 THEN [done |-> <<>>, cur |-> <<>>] ELSE Visit(F[i - 1], seq[i])
  IN Close(F[Len(seq)])

\* CommandProcessor._extract_sections: the action words are deleted, the
\* rest is split at commas and 'and', empty names are dropped
extract_sections(part) ==
  LET Joined(chunks) == [i \in 1..Len(chunks) |-> JoinWords(chunks[i])]
      NonEmpty(chunks) == SelectSeq(chunks, LAMBDA c : c # <<>>)
  IN Joined(NonEmpty(Split(SelectSeq(part, LAMBDA w : w \notin {"remove", "keep"}),
                           {",", "and"})))

HasWord(part, word) == \E i \in 1..Len(part) : part[i] = word

\* CommandProcessor.parse_command: the text is lowercased, every part
\* between full stops with 'remove' in it sets the remove list, else with
\* 'keep' in it the keep list; a later part overwrites an earlier one
NoActions == [keys |-> {}, remove |-> <<>>, keep |-> <<>>]

parse_command(command_text) ==
  LET Visit(actions, part) ==
        IF HasWord(part, "remove")
        THEN [actions EXCEPT !.keys = @ \cup {"remove"}, !.remove = extract_sections(part)]
        ELSE IF HasWord(part, "keep")
        THEN [actions EXCEPT !.keys = @ \cup {"keep"}, !.keep = extract_sections(part)]
        ELSE actions
      Parts(parts) ==
        LET F[i \in 0..Len(parts)] ==
              IF i = 0 THEN NoActions ELSE Visit(F[i - 1], parts[i])
        IN F[Len(parts)]
  IN Parts(Split([i \in 1..Len(command_text) |-> Lower(command_text[i])], {"."}))

----------------------------------------------------------------------------
(* EditPlanner *)

\* the elements of a sequence
Names(seq) == {seq[i] : i \in 1..Len(seq)}

\* sorted(seq, key=...): ascending by key, equal keys in their order in seq
SortedBy(seq, key) ==
  LET Place(s, x, k) == SubSeq(s, 1, k) \o <<x>> \o SubSeq(s, k + 1, Len(s))
      Insert(s, x) == Place(s, x, Cardinality({j \in 1..Len(s) : key[s[j]] <= key[x]}))
      F[i \in 0..Len(seq)] == IF i = 0 THEN <<>> ELSE Insert(F[i - 1], seq[i])
  IN F[Len(seq)]

\* a grouping that never merges: every section is a group of its own
find_single_sections(timing_info, sections) ==
  LET Single(sorted_sections) == [i \in 1..Len(sorted_sections) |-> <<sorted_sections[i]>>]
  IN Single(SortedBy(sections, [x \in Names(sections) |-> timing_info[x].start]))

\* EditPlanner._find_consecutive_sections; the caller has checked that every
\* name is a key of timing_info (a KeyError in the code)
find_consecutive_sections(timing_info, sections) ==
  LET Visit(p, current_section, prev_section) ==
        IF timing_info[current_section].start = timing_info[prev_section].end
        THEN [p EXCEPT !.current_group = Append(@, current_section)]
        ELSE [groups |-> Append(p.groups, p.current_group),
              current_group |-> <<current_section>>]
      Close(p) == Append(p.groups, p.current_group)
      Groups(sorted_sections) ==
        LET F[i \in 1..Len(sorted_sections)] ==
              IF i = 1 THEN [groups |-> <<>>, current_group |-> <<sorted_sections[1]>>]
              ELSE Visit(F[i - 1], sorted_sections[i], sorted_sections[i - 1])
        IN Close(F[Len(sorted_sections)])
  IN IF sections = <<>> THEN <<>>
     ELSE Groups(SortedBy(sections, [x \in Names(sections) |-> timing_info[x].start]))

\* the cut point of a group of consecutive sections
CutPoint(timing_info, first, last) ==
  [start |-> timing_info[first].start,
   end |-> timing_info[last].end,
   crossfade_before |-> first,
   crossfade_after |-> last]

\* EditPlanner.plan_edits; the result is [ok, cuts, err], cuts is None when
\* not ok.  The keep groups are computed and not used.
plan_edits(timing_info, actions) ==
  LET Cuts(consecutive_removes) ==
        [g \in 1..Len(consecutive_removes) |->
           CutPoint(timing_info, consecutive_removes[g][1],
                    consecutive_removes[g][Len(consecutive_removes[g])])]
  IN IF ~(Names(actions.keep) \cup Names(actions.remove) \subseteq DOMAIN timing_info)
     THEN [ok |-> FALSE, cuts |-> <<>>, err |-> "Error planning edits"]
     ELSE [ok |-> TRUE,
           cuts |-> Cuts(find_consecutive_sections(timing_info, actions.remove)),
           err |-> ""]

----------------------------------------------------------------------------
(* MusicEditor *)

\* a validation that checks the alignment alone
validate_alignment(cut_points, timing_info) ==
  \A i \in 1..Len(cut_points) :
    /\ \E nm \in DOMAIN timing_info : timing_info[nm].start = cut_points[i].start
    /\ \E nm \in DOMAIN timing_info : timing_info[nm].end = cut_points[i].end

\* MusicEditor._validate_edits: no cut starts before the end of the cut
\* before it, and every cut starts at a section start and ends at a section
\* end
validate_edits(cut_points, timing_info) ==
  LET Disjoint(sorted_cuts) ==
        \A i \in 2..Len(sorted_cuts) : ~(sorted_cuts[i].start < sorted_cuts[i - 1].end)
  IN /\ Disjoint(SortedBy(cut_points, [c \in Names(cut_points) |-> c.start]))
     /\ \A i \in 1..Len(cut_points) :
          /\ \E nm \in DOMAIN timing_info : timing_info[nm].start = cut_points[i].start
          /\ \E nm \in DOMAIN timing_info : timing_info[nm].end = cut_points[i].end

\* MusicEditor.get_section_timing(section_name); the result is
\* [raises, none, record].  In score mode the method calls .get on what the
\* score processor's get_section_timing returns, which is None without
\* measure times: an AttributeError that nothing catches.
NoSectionTiming == [raises |-> FALSE, none |-> TRUE, record |-> EmptyMap]
SectionTimingRaises == [raises |-> TRUE, none |-> TRUE, record |-> EmptyMap]

get_section_timing(e, s, t, section_name) ==
  LET Returned(timing) ==
        IF timing.none THEN NoSectionTiming
        ELSE [raises |-> FALSE, none |-> FALSE, record |-> timing.map]
      Got(timing) ==
        IF timing.none THEN SectionTimingRaises
        ELSE IF section_name \notin DOMAIN timing.map THEN NoSectionTiming
        ELSE [raises |-> FALSE, none |-> FALSE, record |-> timing.map[section_name]]
  IN IF section_name \notin DOMAIN e.sections THEN NoSectionTiming
     ELSE IF e.using_text_tempo /\ e.has_ttp
     THEN Returned(TTP_get_section_timing(t, e.sections[section_name]))
     ELSE Got(ME_get_section_timing(s))

\* the section timing the text tempo source gives: a record for every
\* section whose two measures are in the measure map
TextTimingInfo(sections, t) ==
  [nm \in Resolvable(sections, t.measure_map) |->
     TTP_get_section_timing(t, sections[nm]).map]

Failed(err) == [ok |-> FALSE, cuts |-> <<>>, err |-> err]

\* the section timing process_command plans with: that of the text tempo
\* processor when it is in use, else that of the score processor; the
\* result is [ok, timing_info, err]
command_timing(e, s, t) ==
  LET Available(timing, err) ==
        IF timing.none \/ DOMAIN timing.map = {}
        THEN [ok |-> FALSE, timing_info |-> EmptyMap, err |-> err]
        ELSE [ok |-> TRUE, timing_info |-> timing.map, err |-> ""]
  IN IF e.using_text_tempo /\ e.has_ttp
     THEN Available(SomeTiming(TextTimingInfo(e.sections, t)),
                    "Failed to calculate section timings from text tempo")
     ELSE Available(ME_get_section_timing(s), "No section timing information available")

\* MusicEditor.process_command on the editor e, its score processor s and
\* its text tempo processor t; the result is [ok, cuts, err], cuts is None
\* when not ok
process_command(e, s, t, command_text) ==
  LET Validated(plan, timing_info) ==
        IF ~plan.ok THEN plan
        ELSE IF ~validate_edits(plan.cuts, timing_info) THEN Failed("Invalid edit sequence")
        ELSE plan
      Planned(timing, actions) ==
        IF ~timing.ok THEN Failed(timing.err)
        ELSE Validated(plan_edits(timing.timing_info, actions), timing.timing_info)
  IN Planned(command_timing(e, s, t), parse_command(command_text))

\* MusicEditor.get_timing_info
get_timing_info(e, s, t) ==
  IF DOMAIN e.sections = {} THEN NoTiming
  ELSE IF e.using_text_tempo /\ e.has_ttp
  THEN SomeTiming([nm \in Resolvable(e.sections, t.measure_map) |->
                     [start |-> t.measure_map[e.sections[nm][1]].real_start_time,
                      end |-> t.measure_map[e.sections[nm][2]].real_end_time,
                      duration |-> t.measure_map[e.sections[nm][2]].real_end_time
                                     - t.measure_map[e.sections[nm][1]].real_start_time,
                      start_measure |-> e.sections[nm][1],
                      end_measure |-> e.sections[nm][2]]])
  ELSE ME_get_section_timing(s)

\* beats / (duration / 60.0) as a fraction of beats per minute
MeasureTempo(beats, duration) == [num |-> beats * 60 * TimeUnit, den |-> duration]

\* an entry of MusicEditor.tempo_changes on the text tempo path
TextTempoChange(measure, tempo) ==
  [measure |-> measure,
   tempo |-> tempo,
   dotted_quarter_tempo |-> [num |-> tempo.num * 2, den |-> tempo.den * 3]]

\* MusicEditor.process_text_tempo; the result is [e, s, t, ok, err].  The
\* time signature error was excluded by the caller.  A tempo change is
\* computed for every measure of the map with a positive duration.
process_text_tempo(e, s, rows) ==
  LET Changes(measure_map, timed, numerator) ==
        [k \in 1..Len(timed) |->
           TextTempoChange(timed[k],
                           MeasureTempo(numerator, measure_map[timed[k]].duration))]
      Changed(e2, s2, t2, tempo_changes) ==
        IF tempo_changes = <<>>
        THEN [e |-> e2, s |-> s2, t |-> t2, ok |-> FALSE,
              err |-> "Failed to calculate tempo changes from tempo file"]
        ELSE [e |-> [e2 EXCEPT !.tempo_changes = tempo_changes],
              s |-> s2, t |-> t2, ok |-> TRUE, err |-> ""]
      Processed(r, time_signature) ==
        IF ~r.ok
        THEN [e |-> [e EXCEPT !.has_ttp = TRUE], s |-> s, t |-> r.st,
              ok |-> FALSE, err |-> r.err]
        ELSE Changed([e EXCEPT !.has_ttp = TRUE, !.using_text_tempo = TRUE],
                    [s EXCEPT !.tempo_changes = <<>>],
                    r.st,
                    Changes(r.st.measure_map,
                            SortedKeys({n \in DOMAIN r.st.measure_map :
                                          r.st.measure_map[n].duration > 0}),
                            time_signature[1]))
      Signature(time_signature) ==
        Processed(TTP_process_tempo_file(TTP_new, rows, time_signature), time_signature)
  IN Signature(analyze_time_signature(s.score))

\* the measure_times process_files derives from the beat map of the text
\* tempo processor; beats_per_measure in twelfths as in the score tables
TextMeasureTimes(time_signature, measure_map) ==
  [n \in DOMAIN measure_map |->
     [start |-> measure_map[n].real_start_time,
      end |-> measure_map[n].real_end_time,
      duration |-> measure_map[n].duration,
      tempo |-> MeasureTempo(time_signature[1], measure_map[n].duration),
      effective_tempo |-> MeasureTempo(time_signature[1], measure_map[n].duration),
      time_signature |-> time_signature,
      beats_per_measure |-> time_signature[1] * Twelfths]]

\* MusicEditor.get_measure_times: on the text tempo path the beat map
\* converted as in process_files, with 4/4 for a missing time signature, and
\* None when a measure of zero duration makes the tempo division fail; else
\* the table of the score processor as it is
get_measure_times(e, s, t) ==
  IF e.using_text_tempo /\ e.has_ttp
  THEN IF \E n \in DOMAIN t.measure_map : t.measure_map[n].duration = 0
       THEN NoTiming
       ELSE SomeTiming(TextMeasureTimes(IF s.time_signature = NoTS THEN <<4, 4>>
                                        ELSE s.time_signature,
                                        t.measure_map))
  ELSE SomeTiming(s.measure_times)

NoTempoData == [none |-> TRUE]

\* a tempo data that names the score as its source whatever the editor uses
get_tempo_data_score_only(e, s, t) ==
  [none |-> FALSE,
   source |-> "score_tempo",
   tempo_changes |-> s.tempo_changes,
   measure_times |-> s.measure_times]

\* MusicEditor.get_tempo_data: on the text tempo path the tempo of every
\* measure of positive duration, the raw beat times and the measures of the
\* beat map, None when one of the three is empty; else the tempo changes and
\* the table of the score processor
get_tempo_data(e, s, t) ==
  LET Changes(timed, numerator) ==
        [k \in 1..Len(timed) |->
           TextTempoChange(timed[k],
                           MeasureTempo(numerator, t.measure_map[timed[k]].duration))]
      Text(timed, numerator) ==
        IF DOMAIN t.measure_map = {} \/ t.beat_timings = <<>> \/ timed = <<>>
        THEN NoTempoData
        ELSE [none |-> FALSE,
              source |-> "text_tempo_map",
              tempo_changes |-> Changes(timed, numerator),
              beat_times |-> [i \in 1..Len(t.beat_timings) |->
                                [beat |-> t.beat_timings[i].beat,
                                 time |-> t.beat_timings[i].time + t.initial_offset]],
              measure_times |-> [n \in DOMAIN t.measure_map |->
                                   [start |-> t.measure_map[n].real_start_time,
                                    end |-> t.measure_map[n].real_end_time,
                                    duration |-> t.measure_map[n].duration,
                                    start_beat |-> t.measure_map[n].start_beat,
                                    end_beat |-> t.measure_map[n].end_beat]],
              total_duration |-> t.total_duration,
              initial_offset |-> t.initial_offset]
  IN IF e.using_text_tempo /\ e.has_ttp
     THEN Text(SortedKeys({n \in DOMAIN t.measure_map : t.measure_map[n].duration > 0}),
               IF s.time_signature = NoTS THEN 4 ELSE s.time_signature[1])
     ELSE [none |-> FALSE,
           source |-> "score_tempo",
           tempo_changes |-> s.tempo_changes,
           measure_times |-> s.measure_times]

NoTempoFile == [kind |-> "none", rows |-> <<>>, score |-> <<>>]
TextTempoFile(rows) == [kind |-> "txt", rows |-> rows, score |-> <<>>]
XmlTempoFile(score) == [kind |-> "xml", rows |-> <<>>, score |-> score]

FilesFailed(e, s, t, err) == [e |-> e, s |-> s, t |-> t, ok |-> FALSE, err |-> err]

\* the final verification of process_files
VerifyTiming(e, s, t) ==
  IF e.using_text_tempo /\ (~e.has_ttp \/ DOMAIN t.measure_map = {})
  THEN FilesFailed(e, s, t, "Failed to get timing information from text tempo file")
  ELSE IF DOMAIN s.measure_times = {}
  THEN FilesFailed(e, s, t, IF e.using_text_tempo
                            THEN "Failed to convert text tempo timings"
                            ELSE "Failed to get timing information from score")
  ELSE [e |-> e, s |-> s, t |-> t, ok |-> TRUE, err |-> ""]

\* MusicEditor.process_files on the editor e, its score processor s and its
\* text tempo processor t; the result is [e, s, t, ok, err]
process_files(e, s, t, score_file, tempo_file) ==
  LET Scored(e2, r) ==
        IF ~r.ok THEN FilesFailed(e2, r.st, t, "Error processing score")
        ELSE VerifyTiming(e2, r.st, t)
      Mapped(e2, l) ==
        IF ~l.ok THEN FilesFailed(e2, l.st, t, "No tempo markings found in tempo map")
        ELSE Scored([e2 EXCEPT !.using_text_tempo = FALSE], ME_process_score(l.st, TRUE))
      Text(r) ==
        IF ~r.ok THEN r
        ELSE IF \E n \in DOMAIN r.t.measure_map : r.t.measure_map[n].duration = 0
        THEN FilesFailed(r.e, r.s, r.t, "Error processing files: float division by zero")
        ELSE VerifyTiming(r.e,
                          [r.s EXCEPT !.measure_times =
                             TextMeasureTimes(r.s.time_signature, r.t.measure_map)],
                          r.t)
      Tempo(e2, s2) ==
        IF tempo_file.kind = "txt" THEN Text(process_text_tempo(e2, s2, tempo_file.rows))
        ELSE IF tempo_file.kind = "xml" THEN Mapped(e2, ME_load_tempo_map(s2, tempo_file.score))
        ELSE Scored([e2 EXCEPT !.using_text_tempo = FALSE], ME_process_score(s2, FALSE))
      Signature(e2, s1, final) ==
        IF final = NoTS THEN FilesFailed(e2, s1, t, "No time signature found in score")
        ELSE Tempo(e2, [s1 EXCEPT !.time_signature = final])
      Structure(sections) ==
        IF DOMAIN sections = {}
        THEN FilesFailed([e EXCEPT !.sections = sections],
                         [s EXCEPT !.score = score_file, !.sections = sections],
                         t, "No sections found in score")
        ELSE Signature([e EXCEPT !.sections = sections],
                       [s EXCEPT !.score = score_file, !.sections = sections],
                       analyze_time_signature(score_file))
  IN Structure(analyze_structure(score_file))

ED_new ==
  [sections |-> EmptyMap, using_text_tempo |-> FALSE, has_ttp |-> FALSE,
   tempo_changes |-> <<>>]

ME_new ==
  [score |-> <<>>, tempo_changes |-> <<>>, sections |-> EmptyMap,
   measure_times |-> EmptyMap, time_signature |-> NoTS]

----------------------------------------------------------------------------
(* Inputs *)

\* the texts of the markers, each a sequence of words
LowerLabels == <<<<"intro">>, <<"verse">>, <<"chorus">>, <<"outro">>>>
CapLabels == <<<<"Intro">>, <<"Verse1">>, <<"Chorus1">>, <<"Verse2">>>>
SpacedLabels == <<<<"Intro">>, <<"Verse", "1">>, <<"Chorus", "1">>, <<"Verse", "2">>>>

LabelAt(labelling, i) ==
  CASE labelling = "lower" -> LowerLabels[((i - 1) % Len(LowerLabels)) + 1]
    [] labelling = "caps" -> CapLabels[((i - 1) % Len(CapLabels)) + 1]
    [] labelling = "first" -> IF i = 1 THEN <<"intro">> ELSE <<>>
    [] labelling = "odd" -> IF i % 2 = 1 THEN LowerLabels[((i - 1) % Len(LowerLabels)) + 1]
                            ELSE <<"Am7">>
    [] OTHER -> <<>>

\* a score of np identical parts of n measures numbered 1..n; the first two
\* measures carry the signatures ts1, ts2 and the marks mark1, mark2
MakeScore(n, np, ts1, ts2, mark1, mark2, labelling) ==
  LET part == [i \in 1..n |->
                 [number |-> i,
                  ts |-> IF i = 1 THEN ts1 ELSE IF i = 2 THEN ts2 ELSE NoTS,
                  mark |-> IF i = 1 THEN mark1 ELSE IF i = 2 THEN mark2 ELSE NoMark,
                  label |-> LabelAt(labelling, i)]]
  IN [p \in 1..np |-> part]

\* the signatures of measures 1 and 2: plain, compound, other denominators,
\* a countdown, 9/4 before another signature with numerator 9, a change, none
SignaturePatterns ==
  {<<<<4, 4>>, NoTS>>, <<<<6, 8>>, NoTS>>, <<<<3, 4>>, NoTS>>, <<<<2, 2>>, NoTS>>,
   <<<<9, 4>>, <<4, 4>>>>, <<<<9, 4>>, <<6, 8>>>>, <<<<9, 4>>, <<9, 8>>>>,
   <<<<9, 4>>, NoTS>>, <<<<4, 4>>, <<6, 8>>>>, <<NoTS, NoTS>>}

\* the metronome marks of measures 1 and 2
MarkPatterns ==
  {<<NoMark, NoMark>>, <<80, NoMark>>, <<100, NoMark>>, <<80, 120>>, <<0, NoMark>>,
   <<100, 0>>}

Scores ==
  {MakeScore(n, np, sig[1], sig[2], mark[1], mark[2], "lower") :
     n \in 1..MaxMeasures, np \in 1..MaxParts,
     sig \in SignaturePatterns, mark \in MarkPatterns}
  \cup
  {MakeScore(n, np, ts1, <<4, 4>>, 100, mark2, labelling) :
     n \in 1..MaxMeasures, np \in 1..MaxParts,
     ts1 \in {<<4, 4>>, <<9, 4>>}, mark2 \in {NoMark, 120}, labelling \in {"none", "odd"}}

\* a one-part score in 4/4 at one tempo whose sections have the given
\* lengths in measures
SectionedScore(lengths, labels, tempo) ==
  LET Start[k \in 1..Len(lengths)] == IF k = 1 THEN 1 ELSE Start[k - 1] + lengths[k - 1]
      n == Start[Len(lengths)] + lengths[Len(lengths)] - 1
      part == [i \in 1..n |->
                 [number |-> i,
                  ts |-> IF i = 1 THEN <<4, 4>> ELSE NoTS,
                  mark |-> IF i = 1 THEN tempo ELSE NoMark,
                  label |-> IF \E k \in 1..Len(lengths) : Start[k] = i
                            THEN labels[CHOOSE k \in 1..Len(lengths) : Start[k] = i]
                            ELSE <<>>]]
  IN <<part>>

\* markers Intro, Verse1, Chorus1, Verse2 at measures 1, 5, 13, 21 of 28, at
\* 100 BPM in 4/4; the same with the markers Intro, Verse 1, Chorus 1, Verse 2
ScenarioScore == SectionedScore(<<4, 8, 8, 8>>, CapLabels, 100)
SpacedScenarioScore == SectionedScore(<<4, 8, 8, 8>>, SpacedLabels, 100)

\* the rows of a beat file: beat numbers from base, times from first in the
\* given steps, the given types
MakeRows(base, first, steps, types) ==
  LET Time[i \in 1..Len(types)] == IF i = 1 THEN first ELSE Time[i - 1] + steps[i - 1]
  IN [i \in 1..Len(types) |-> [beat |-> base + i - 1, time |-> Time[i], type |-> types[i]]]

Bases == {0, 1}
FirstTimes == {0, TimeUnit \div 4}
Steps == {TimeUnit \div 2, (3 * TimeUnit) \div 4}

SeqsOf(S, n) == [1..n -> S]

BeatFiles ==
  {<<>>} \cup
  UNION {{MakeRows(base, first, steps, types) :
            base \in Bases, first \in FirstTimes,
            steps \in SeqsOf(Steps, n - 1), types \in SeqsOf(RawTypes, n)} :
         n \in 1..MaxRows}

----------------------------------------------------------------------------
(* The timeline builders on one score *)

\* AudioProcessor(): no audio, no preview generated
AP_new == [audio_segment |-> <<>>, previews |-> 0]

SP_new ==
  [score |-> <<>>, tempo_changes |-> <<>>, sections |-> EmptyMap,
   measure_times |-> EmptyMap, time_signature |-> NoTS, has_analyzer |-> FALSE]

NoRet == [op |-> "none"]

TimingSources == {"constant_tempo", "score_tempo_map", "text_tempo_map"}

InitTimeline ==
  /\ inp \in Scores
  /\ ed = ED_new
  /\ me = ME_new
  /\ ttp = TTP_new
  /\ sp = SP_new
  /\ tmp = TMP_new
  /\ ap = AP_new
  /\ ret = NoRet

\* what process_files leaves in the editor and returns
FilesProcessed(tempo_file, r) ==
  /\ ed' = r.e
  /\ me' = r.s
  /\ ttp' = r.t
  /\ ret' = [op |-> "process_files", tempo_file |-> tempo_file,
             ok |-> r.ok, err |-> r.err]

\* MusicEditor().process_files(score_file)
EditorProcessScoreFile ==
  /\ FilesProcessed(NoTempoFile, process_files(ed, me, ttp, inp, NoTempoFile))
  /\ UNCHANGED <<inp, sp, tmp, ap>>

\* MusicEditor.get_timing_info()
EditorGetTimingInfo ==
  /\ ret' = [op |-> "get_timing_info", timing |-> get_timing_info(ed, me, ttp)]
  /\ UNCHANGED <<inp, ed, me, ttp, sp, tmp, ap>>

\* processor.analyzer = ScoreAnalyzer()
SetAnalyzer ==
  /\ ~sp.has_analyzer
  /\ sp' = [sp EXCEPT !.has_analyzer = TRUE]
  /\ ret' = NoRet
  /\ UNCHANGED <<inp, ed, me, ttp, tmp, ap>>

ScoreProcessed(timing_source, r) ==
  /\ sp' = r.st
  /\ ret' = [op |-> "process_score", timing_source |-> timing_source, ok |-> r.ok]

\* processors.ScoreProcessor.process_score(score_file, timing_source)
ProcessScore ==
  \E timing_source \in TimingSources :
    /\ ScoreProcessed(timing_source, SP_process_score(sp, inp, timing_source))
    /\ UNCHANGED <<inp, ed, me, ttp, tmp, ap>>

\* processors.ScoreProcessor.get_section_timing()
GetSectionTiming ==
  /\ ret' = [op |-> "get_section_timing", timing |-> SP_get_section_timing(sp)]
  /\ UNCHANGED <<inp, ed, me, ttp, sp, tmp, ap>>

NextTimeline ==
  \/ EditorProcessScoreFile
  \/ EditorGetTimingInfo
  \/ SetAnalyzer
  \/ ProcessScore
  \/ GetSectionTiming

SpecTimeline == InitTimeline /\ [][NextTimeline]_vars

----------------------------------------------------------------------------
(* The two beat-map processors on one beat file *)

InitBeat ==
  /\ inp \in BeatFiles
  /\ ed = ED_new
  /\ me = ME_new
  /\ ttp = TTP_new
  /\ sp = SP_new
  /\ tmp = TMP_new
  /\ ap = AP_new
  /\ ret = NoRet

TextTempoProcessed(r) ==
  /\ ttp' = r.st
  /\ ret' = [op |-> "text_tempo", ok |-> r.ok, err |-> r.err]

\* TextTempoProcessor.process_tempo_file(file_path, (4, 4))
TextTempoProcessFile ==
  /\ TextTempoProcessed(TTP_process_tempo_file(ttp, inp, <<4, 4>>))
  /\ UNCHANGED <<inp, ed, me, sp, tmp, ap>>

TempoMapProcessed(r) ==
  /\ tmp' = r.st
  /\ ret' = [op |-> "tempo_map", ok |-> r.ok, err |-> ""]

\* TempoMapProcessor.process_tempo_file(file_path, (4, 4))
TempoMapProcessFile ==
  /\ TempoMapProcessed(TMP_process_tempo_file(tmp, inp, <<4, 4>>))
  /\ UNCHANGED <<inp, ed, me, ttp, sp, ap>>

NextBeat ==
  \/ TextTempoProcessFile
  \/ TempoMapProcessFile

SpecBeat == InitBeat /\ [][NextBeat]_vars

----------------------------------------------------------------------------
(* processors.audio_processor.AudioProcessor *)

\* the measure length generate_preview extends a fade by, 2.25 seconds
measure_duration == 2250000

\* the length of a crossfade point, 40 ms
CrossfadeLength == 40000

\* timing_info.keys(): the names in the order the timing map was filled,
\* which is the order of the sections in the score
TimingKeys(timing_info) ==
  LET First(S) == CHOOSE k \in S : \A j \in S : timing_info[k].start <= timing_info[j].start
      F[i \in 0..Cardinality(DOMAIN timing_info)] ==
        IF i = 0 THEN <<>>
        ELSE F[i - 1] \o <<First(DOMAIN timing_info \ Names(F[i - 1]))>>
  IN F[Cardinality(DOMAIN timing_info)]

\* [x for x in seq if x in S]
Filter(seq, S) ==
  LET F[i \in 0..Len(seq)] ==
        IF i = 0 THEN <<>>
        ELSE IF seq[i] \in S THEN F[i - 1] \o <<seq[i]>> ELSE F[i - 1]
  IN F[Len(seq)]

\* a name that holds '/snippet' or '/endsnippet'
SnippetMarker(section) == Lower(section) \in {"/snippet", "/endsnippet"}

\* An audio is a sequence of pieces [from, to] of the loaded recording, in
\* milliseconds; <<>> is no audio.

\* len(audio), in milliseconds
AudioLen(audio) ==
  LET F[i \in 0..Len(audio)] ==
        IF i = 0 THEN 0 ELSE F[i - 1] + audio[i].to - audio[i].from
  IN F[Len(audio)]

\* audio[a:b] of pydub: the bounds are clamped to the audio
AudioSlice(audio, a, b) ==
  LET Cut(lo, hi) ==
        LET Before[i \in 0..Len(audio)] ==
              IF i = 0 THEN 0 ELSE Before[i - 1] + audio[i].to - audio[i].from
            Part(i) ==
              [from |-> audio[i].from + Max({lo, Before[i - 1]}) - Before[i - 1],
               to |-> audio[i].from + Min({hi, Before[i]}) - Before[i - 1]]
            F[i \in 0..Len(audio)] ==
              IF i = 0 THEN <<>>
              ELSE IF Max({lo, Before[i - 1]}) < Min({hi, Before[i]})
              THEN F[i - 1] \o <<Part(i)>>
              ELSE F[i - 1]
        IN F[Len(audio)]
  IN Cut(Max({0, Min({a, AudioLen(audio)})}), Max({0, Min({b, AudioLen(audio)})}))

\* two audios one after the other; pieces that continue each other are one
AudioJoin(first, second) ==
  IF first = <<>> THEN second
  ELSE IF second = <<>> THEN first
  ELSE IF first[Len(first)].to = second[1].from
  THEN SubSeq(first, 1, Len(first) - 1)
       \o <<[from |-> first[Len(first)].from, to |-> second[1].to]>>
       \o SubSeq(second, 2, Len(second))
  ELSE first \o second

\* no fade on a segment
NoFade == 0 - 1

\* self.crossfade_duration_ms
crossfade_duration_ms == 20

\* AudioProcessor.apply_edits on the audio: a segment for every keep point,
\* [audio, start_ms, end_ms, fade_in, fade_out] with the lengths of the
\* fades in milliseconds, and the segments joined with crossfades, which
\* replace the first crossfade_duration_ms of every later segment by a mix
\* with the end of the audio before it.  pydub rejects a fade whose length
\* is not positive (InvalidDuration below 0, a TypeError at 0) and the
\* handler returns the failure.  The result is [ok, segments, audio].
apply_edits(audio, points, apply_fade_in, apply_fade_out) ==
  LET Ms(t) == t \div 1000
      FinalSongSection(name) == Lower(name) \in {"outro", "ending"}
      EndMs(edit, last) ==
        IF last /\ FinalSongSection(edit.section) THEN AudioLen(audio) ELSE Ms(edit.end_time)
      FadeIn(edit, first) ==
        IF apply_fade_in /\ first /\ Ms(edit.start_time) < Ms(edit.original_start)
        THEN Ms(edit.original_start) - Ms(edit.start_time)
        ELSE NoFade
      FadeOut(edit, last, end_ms) ==
        IF ~(apply_fade_out /\ last) THEN NoFade
        ELSE IF FinalSongSection(edit.section)
        THEN Min({2000, end_ms - Ms(edit.original_end)})
        ELSE IF end_ms > Ms(edit.original_end) THEN end_ms - Ms(edit.original_end)
        ELSE 500
      Segment(edit, first, last, end_ms) ==
        [audio |-> AudioSlice(audio, Ms(edit.start_time), end_ms),
         start_ms |-> Ms(edit.start_time),
         end_ms |-> end_ms,
         fade_in |-> FadeIn(edit, first),
         fade_out |-> FadeOut(edit, last, end_ms)]
      Extract(keeps) ==
        [i \in 1..Len(keeps) |->
           Segment(keeps[i], i = 1, keeps[i] = points[Len(points)],
                   EndMs(keeps[i], keeps[i] = points[Len(points)]))]
      Combine(segments) ==
        LET F[i \in 1..Len(segments)] ==
              IF i = 1 THEN segments[1].audio
              ELSE AudioJoin(F[i - 1],
                             AudioSlice(segments[i].audio, crossfade_duration_ms,
                                        AudioLen(segments[i].audio)))
        IN [ok |-> TRUE, segments |-> segments, audio |-> F[Len(segments)]]
      Faded(segments) ==
        IF \E i \in 1..Len(segments) :
             segments[i].fade_out # NoFade /\ segments[i].fade_out <= 0
        THEN [ok |-> FALSE, segments |-> <<>>, audio |-> audio]
        ELSE Combine(segments)
      Applied(keeps) ==
        IF keeps = <<>> THEN [ok |-> FALSE, segments |-> <<>>, audio |-> audio]
        ELSE Faded(Extract(keeps))
  IN IF audio = <<>> THEN [ok |-> FALSE, segments |-> <<>>, audio |-> audio]
     ELSE Applied(SelectSeq(points, LAMBDA p : p.type = "keep"))

NoPreview == [none |-> TRUE, edit_points |-> <<>>, segments |-> <<>>, audio |-> <<>>]

\* the sections generate_preview keeps, sorted by start; the timing map is
\* not empty
sorted_sections(edit_result, timing_info) ==
  LET sections_to_keep ==
        IF edit_result.action = "keep" THEN edit_result.sections
        ELSE Filter(TimingKeys(timing_info),
                    DOMAIN timing_info \ Names(edit_result.sections))
  IN SortedBy(Filter(sections_to_keep,
                     {nm \in DOMAIN timing_info : ~SnippetMarker(nm)}),
              [nm \in DOMAIN timing_info |-> timing_info[nm].start])

\* the edit points of the kept sections: a crossfade point before every
\* section but the first, and a keep point that a fade extends by two
\* measures, not beyond the audio
edit_points(sorted, timing_info, total_duration, fade_in, fade_out) ==
  LET Crossfade(info) ==
        [type |-> "crossfade", start_time |-> info.start,
         end_time |-> info.start + CrossfadeLength]
      Keep(i, info) ==
        [type |-> "keep",
         start_time |-> IF i = 1 /\ fade_in
                        THEN Max({0, info.start - 2 * measure_duration})
                        ELSE info.start,
         end_time |-> IF i = Len(sorted) /\ fade_out
                      THEN Min({total_duration, info.end + 2 * measure_duration})
                      ELSE info.end,
         section |-> sorted[i],
         original_start |-> info.start,
         original_end |-> info.end]
      F[i \in 0..Len(sorted)] ==
        IF i = 0 THEN <<>>
        ELSE F[i - 1]
             \o (IF i > 1 THEN <<Crossfade(timing_info[sorted[i]])>> ELSE <<>>)
             \o <<Keep(i, timing_info[sorted[i]])>>
  IN F[Len(sorted)]

\* AudioProcessor.generate_preview on the processor's audio; the result is
\* None, or the edit points, the segments cut for them and the edited audio,
\* which the processor keeps as its audio_segment
generate_preview(audio, edit_result, timing, fade_in, fade_out) ==
  LET Edited(points, r) ==
        IF ~r.ok THEN NoPreview
        ELSE [none |-> FALSE, edit_points |-> points,
              segments |-> r.segments, audio |-> r.audio]
      Apply(points) == Edited(points, apply_edits(audio, points, fade_in, fade_out))
      Applied(sorted) ==
        IF sorted = <<>> THEN NoPreview
        ELSE Apply(edit_points(sorted, timing.map, AudioLen(audio) * 1000,
                               fade_in, fade_out))
  IN IF audio = <<>> THEN NoPreview
     ELSE IF timing.none \/ DOMAIN timing.map = {} THEN NoPreview
     ELSE IF edit_result.action \notin {"keep", "remove"} THEN NoPreview
     ELSE Applied(sorted_sections(edit_result, timing.map))

----------------------------------------------------------------------------
(* An editing session: files are processed, commands are planned *)

\* a score in 4/4 at 100 BPM with a section at every measure
SessionScore(np, labelling) ==
  MakeScore(MaxMeasures, np, <<4, 4>>, NoTS, 100, NoMark, labelling)

\* a beat file of MaxRows rows, half a second apart after a quarter of a
\* second, with the given type in the last row and the other type before it
SessionRows(type, last) ==
  MakeRows(1, TimeUnit \div 4, [i \in 1..(MaxRows - 1) |-> TimeUnit \div 2],
           [i \in 1..MaxRows |-> IF i = MaxRows THEN last ELSE type])

\* a beat file of MaxRows strong beats, the first two at the same time
DoubledRows ==
  MakeRows(1, TimeUnit \div 4,
           [i \in 1..(MaxRows - 1) |-> IF i = 1 THEN 0 ELSE TimeUnit \div 2],
           [i \in 1..MaxRows |-> "s"])

\* the files of a session: the score and its tempo file
SessionFiles ==
  {<<ScenarioScore, NoTempoFile>>,
   <<SpacedScenarioScore, NoTempoFile>>,
   <<SessionScore(1, "lower"), NoTempoFile>>,
   <<SessionScore(MaxParts, "lower"), NoTempoFile>>,
   <<SessionScore(1, "none"), NoTempoFile>>,
   <<SessionScore(1, "lower"), TextTempoFile(SessionRows("s", "w"))>>,
   <<SessionScore(1, "lower"), TextTempoFile(SessionRows("s", "s"))>>,
   <<SessionScore(1, "lower"), TextTempoFile(SessionRows("w", "w"))>>,
   <<SessionScore(1, "lower"), TextTempoFile(DoubledRows)>>,
   <<SessionScore(1, "lower"), XmlTempoFile(MakeScore(1, 1, NoTS, NoTS, 120, NoMark, "none"))>>,
   <<SessionScore(1, "lower"), XmlTempoFile(MakeScore(1, 1, NoTS, NoTS, NoMark, NoMark, "none"))>>}

\* "a", "a and b", "a, b and c"
ListText(names) ==
  LET F[i \in 1..Len(names)] ==
        IF i = 1 THEN <<names[1]>>
        ELSE F[i - 1] \o <<IF i = Len(names) THEN "and" ELSE ",", names[i]>>
  IN IF names = <<>> THEN <<>> ELSE F[Len(names)]

\* "remove <names>. keep <names>", a clause without names left out
CommandText(removes, keeps) ==
  (IF removes = <<>> THEN <<>> ELSE <<"remove">> \o ListText(removes) \o <<".">>)
  \o (IF keeps = <<>> THEN <<>> ELSE <<"keep">> \o ListText(keeps))

RemoveLists ==
  {<<>>, <<"intro">>, <<"verse">>, <<"intro", "verse">>, <<"verse", "intro">>,
   <<"intro", "chorus">>, <<"chorus", "intro">>, <<"intro", "intro">>,
   <<"intro", "verse", "chorus">>, <<"verse", "outro", "intro">>, <<"intro", "solo">>}

KeepLists == {<<>>, <<"verse">>}

\* "remove Intro and Verse2"
ScenarioCommand == <<"remove", "Intro", "and", "Verse2">>
\* "remove Intro and Verse 2"
SpacedScenarioCommand == <<"remove", "Intro", "and", "Verse", "2">>

Commands ==
  {CommandText(removes, keeps) : removes \in RemoveLists, keeps \in KeepLists}
  \cup {ScenarioCommand,
        SpacedScenarioCommand,
        <<"Remove", "verse", ".", "Keep", "Intro">>,
        <<"keep", "intro", ".", "remove", "chorus", ".", "remove", "verse">>}

NoInput == <<>>

Init ==
  /\ inp = NoInput
  /\ ed = ED_new
  /\ me = ME_new
  /\ ttp = TTP_new
  /\ sp = SP_new
  /\ tmp = TMP_new
  /\ ap = AP_new
  /\ ret = NoRet

\* MusicEditor.process_files(score_file, tempo_file)
ProcessFiles ==
  \E files \in SessionFiles :
    /\ FilesProcessed(files[2], process_files(ed, me, ttp, files[1], files[2]))
    /\ UNCHANGED <<inp, sp, tmp, ap>>

\* the plan plan_edits hands back to process_command, NotPlanned when the
\* call ends before it
NotPlanned == [ok |-> FALSE, cuts |-> <<>>, err |-> "not planned"]

planned_edits(e, s, t, command_text) ==
  LET Planned(timing, actions) ==
        IF ~timing.ok THEN NotPlanned ELSE plan_edits(timing.timing_info, actions)
  IN Planned(command_timing(e, s, t), parse_command(command_text))

\* MusicEditor.process_command(command_text)
ProcessCommand ==
  \E command_text \in Commands :
    /\ ret' = [op |-> "process_command",
               command |-> command_text,
               plan |-> planned_edits(ed, me, ttp, command_text),
               result |-> process_command(ed, me, ttp, command_text)]
    /\ UNCHANGED <<inp, ed, me, ttp, sp, tmp, ap>>

\* MusicEditor.get_timing_info()
GetTimingInfo ==
  /\ ret' = [op |-> "get_timing_info", timing |-> get_timing_info(ed, me, ttp)]
  /\ UNCHANGED <<inp, ed, me, ttp, sp, tmp, ap>>

\* MusicEditor.get_measure_times()
GetMeasureTimes ==
  /\ ret' = [op |-> "get_measure_times", times |-> get_measure_times(ed, me, ttp)]
  /\ UNCHANGED <<inp, ed, me, ttp, sp, tmp, ap>>

\* MusicEditor.get_tempo_data()
GetTempoData ==
  /\ ret' = [op |-> "get_tempo_data", data |-> get_tempo_data(ed, me, ttp)]
  /\ UNCHANGED <<inp, ed, me, ttp, sp, tmp, ap>>

\* the previews asked for, [edit_result, fade_in, fade_out]: one section, or
\* a name that is none, kept or removed with any fades, two sections in any
\* order kept or removed without fades, and an action that is not
\* supported; on an audio that a preview has edited, one section kept
PreviewRequests(names, previews) ==
  LET Request(action, sections, fade_in, fade_out) ==
        [edit_result |-> [action |-> action, sections |-> sections],
         fade_in |-> fade_in, fade_out |-> fade_out]
  IN IF previews > 0
     THEN {Request("keep", <<x>>, FALSE, FALSE) : x \in names}
     ELSE {Request(a, <<x>>, fi, fo) :
             a \in {"keep", "remove"}, x \in names \cup {"solo"},
             fi \in BOOLEAN, fo \in BOOLEAN}
          \cup {Request(a, <<x, y>>, FALSE, FALSE) :
                  a \in {"keep", "remove"}, x \in names, y \in names}
          \cup {Request("reorder", <<x>>, FALSE, FALSE) : x \in names}

\* the length of the recording, in milliseconds
RecordingLength == 10000

\* AudioProcessor.process_audio(audio_file): the recording is loaded
ProcessAudio ==
  /\ ap' = [audio_segment |-> <<[from |-> 0, to |-> RecordingLength]>>, previews |-> 0]
  /\ ret' = [op |-> "process_audio"]
  /\ UNCHANGED <<inp, ed, me, ttp, sp, tmp>>

\* AudioProcessor.generate_preview(edit_result, timing_info, fade_in, fade_out)
\* with the editor's timing information
GeneratePreview ==
  /\ ap.previews < MaxPreviews
  /\ \E request \in PreviewRequests(DOMAIN get_timing_info(ed, me, ttp).map, ap.previews) :
       LET Previewed(preview) ==
             /\ ret' = [op |-> "generate_preview",
                        edit_result |-> request.edit_result,
                        fade_in |-> request.fade_in,
                        fade_out |-> request.fade_out,
                        timing |-> get_timing_info(ed, me, ttp),
                        preview |-> preview]
             /\ ap' = IF preview.none THEN ap
                      ELSE [audio_segment |-> preview.audio, previews |-> ap.previews + 1]
       IN Previewed(generate_preview(ap.audio_segment, request.edit_result,
                                     get_timing_info(ed, me, ttp),
                                     request.fade_in, request.fade_out))
  /\ UNCHANGED <<inp, ed, me, ttp, sp, tmp>>

-----------------------------------------------------------------------------
(* processors.openai_processor.OpenAIProcessor *)

\* A section name is the sequence of its words and of the separators
\* between them; s.lower() lowers every word, s.replace(a, b) replaces
\* every separator a by b.

\* OpenAIProcessor._validate_command(command, available_sections); a command
\* is [error, action, sections] with "" and <<>> for a key that is absent
validate_command(command, available_sections) ==
  LET lower(s) == [i \in 1..Len(s) |-> Lower(s[i])]
      replace(s, a, b) == [i \in 1..Len(s) |-> IF s[i] = a THEN b ELSE s[i]]
      available_sections_lower ==
        {lower(available_sections[j]) : j \in 1..Len(available_sections)}
      command_sections ==
        [i \in 1..Len(command.sections) |-> lower(command.sections[i])]
      command_sections_space ==
        [i \in 1..Len(command.sections) |-> replace(command_sections[i], "_", " ")]
      invalid_sections ==
        {i \in 1..Len(command.sections) :
           command_sections_space[i] \notin available_sections_lower}
      \* {s.lower(): s for s in available_sections}: the last name wins
      section_map(key) ==
        LET js == {j \in 1..Len(available_sections) :
                     lower(available_sections[j]) = key}
        IN available_sections[CHOOSE j \in js : \A k \in js : k <= j]
      Error(code) == [error |-> code, action |-> "", sections |-> <<>>]
  IN IF command.error /= "" THEN command
     ELSE IF command.action \notin {"keep", "remove"} THEN Error("INVALID_ACTION")
     ELSE IF command.sections = <<>> THEN Error("NO_SECTIONS")
     ELSE IF invalid_sections /= {} THEN Error("INVALID_SECTIONS")
     ELSE [command EXCEPT !.sections =
             [i \in 1..Len(command.sections) |->
                section_map(lower(replace(command.sections[i], "_", " ")))]]

\* the lists of section names of a score and of a command
NameLists ==
  LET SectionNames ==
        {<<word, sep, "1">> : word \in {"Verse", "verse"}, sep \in {" ", "_"}}
        \cup {<<"Intro">>, <<"intro">>}
  IN {<<a>> : a \in SectionNames} \cup (SectionNames \X SectionNames)

\* the parsed answers of the model
ParsedCommands ==
  {[error |-> "PARSE_ERROR", action |-> "", sections |-> <<>>]}
  \cup [error : {""}, action : {"keep", "remove", "reorder", ""},
        sections : NameLists \cup {<<>>}]

\* a parsed answer and the section names of the loaded score
InitCommand ==
  /\ inp \in [command : ParsedCommands, available_sections : NameLists]
  /\ ed = ED_new
  /\ me = ME_new
  /\ ttp = TTP_new
  /\ sp = SP_new
  /\ tmp = TMP_new
  /\ ap = AP_new
  /\ ret = NoRet

\* OpenAIProcessor._validate_command on the parsed answer of the model
ValidateCommand ==
  /\ ret = NoRet
  /\ ret' = [op |-> "validate_command", command |-> inp.command,
             available_sections |-> inp.available_sections,
             result |-> validate_command(inp.command, inp.available_sections)]
  /\ UNCHANGED <<inp, ed, me, ttp, sp, tmp, ap>>

SpecCommand == InitCommand /\ [][ValidateCommand]_vars

\* the beat files one processor is given one after the other: MaxRows rows
\* with the strong beats in different places, and a file of one strong beat
ReplayFiles ==
  {SessionRows(type, last) : type \in {"s", "w"}, last \in {"s", "w"}}
  \cup {MakeRows(0, 0, <<>>, <<"s">>)}

\* the next beat file is chosen
ChooseBeatFile ==
  /\ \E rows \in ReplayFiles : inp' = rows
  /\ ret' = NoRet
  /\ UNCHANGED <<ed, me, ttp, sp, tmp, ap>>

\* the two beat-map processors, each processing one file after the other
NextReplay ==
  \/ ChooseBeatFile
  \/ TextTempoProcessFile
  \/ TempoMapProcessFile

SpecReplay == Init /\ [][NextReplay]_vars

\* MusicEditor.get_section_timing(section_name)
EditorGetSectionTiming ==
  \E section_name \in {"intro", "outro", "solo"} :
    /\ ret' = [op |-> "editor_get_section_timing", section_name |-> section_name,
               timing |-> get_section_timing(ed, me, ttp, section_name)]
    /\ UNCHANGED <<inp, ed, me, ttp, sp, tmp, ap>>

Next ==
  \/ ProcessFiles
  \/ ProcessCommand
  \/ GetTimingInfo
  \/ GetMeasureTimes
  \/ GetTempoData
  \/ EditorGetSectionTiming

Spec == Init /\ [][Next]_vars

\* MusicEditor.process_files before any audio is loaded
StartSession ==
  /\ ap = AP_new
  /\ ProcessFiles

\* a session in which the files are processed, the audio is loaded and
\* previews are generated
NextPreview ==
  \/ StartSession
  \/ ProcessAudio
  \/ GeneratePreview

SpecPreview == Init /\ [][NextPreview]_vars

----------------------------------------------------------------------------
(* Properties *)

\* a measure table is contiguous: measure 1 starts at 0 and every measure
\* ends where the next measure number present starts
Contiguous(table) ==
  /\ 1 \in DOMAIN table => table[1].start = 0
  /\ \A n \in DOMAIN table : \A m \in DOMAIN table :
       (n < m /\ \A k \in DOMAIN table : ~(n < k /\ k < m)) => table[n].end = table[m].start

EditorBuilt == ret.op = "process_files" /\ ret.ok
ProcessorBuilt ==
  ret.op = "process_score" /\ ret.ok /\ ret.timing_source # "text_tempo_map"

\* C1: after every successful run of either tempo-based timeline builder
\* the measure table is contiguous and measure 1 starts at 0, scores with
\* several parts included.
C1_Contiguous ==
  /\ EditorBuilt => Contiguous(me.measure_times)
  /\ ProcessorBuilt => Contiguous(sp.measure_times)

----------------------------------------------------------------------------

CommandDone == ret.op = "process_command"

\* the cuts in ascending order of start do not overlap
NoOverlap(cuts) ==
  LET Ordered(sorted_cuts) ==
        \A i \in 2..Len(sorted_cuts) : sorted_cuts[i].start >= sorted_cuts[i - 1].end
  IN Ordered(SortedBy(cuts, [c \in Names(cuts) |-> c.start]))

\* C2: a plan process_command returns as success has cut points that,
\* sorted by start, satisfy cut[i].start >= cut[i-1].end; when the planned
\* cut points violate this, process_command returns an error and no cuts.
C2_NoOverlappingCuts ==
  CommandDone =>
    /\ ret.result.ok => NoOverlap(ret.result.cuts)
    /\ (ret.plan.ok /\ ~NoOverlap(ret.plan.cuts)) =>
         (~ret.result.ok /\ ret.result.cuts = <<>> /\ ret.result.err # "")

\* a command is answered with two cut points or more
C2_Witness ==
  CommandDone /\ ret.result.ok /\ Len(ret.result.cuts) >= 2

\* the section timing the command was planned with and its actions
PlanTiming == command_timing(ed, me, ttp).timing_info
PlanActions == parse_command(ret.command)
PlanRemoved == SortedBy(PlanActions.remove,
           [x \in Names(PlanActions.remove) |-> PlanTiming[x].start])

\* position i opens a run of the sorted removed sections, position j closes it
RunStart(timing, sorted, i) ==
  i = 1 \/ timing[sorted[i]].start # timing[sorted[i - 1]].end
RunEnd(timing, sorted, j) ==
  j = Len(sorted) \/ timing[sorted[j + 1]].start # timing[sorted[j]].end

\* the cut points are those of the maximal runs, in order
CutsOfRuns(timing, sorted, cuts) ==
  /\ Len(cuts) = Cardinality({i \in 1..Len(sorted) : RunStart(timing, sorted, i)})
  /\ \A i \in 1..Len(sorted) : \A j \in i..Len(sorted) :
       (/\ RunStart(timing, sorted, i)
        /\ RunEnd(timing, sorted, j)
        /\ \A k \in i..(j - 1) : ~RunEnd(timing, sorted, k))
       => LET g == Cardinality({h \in 1..i : RunStart(timing, sorted, h)})
          IN /\ cuts[g].start = timing[sorted[i]].start
             /\ cuts[g].end = timing[sorted[j]].end

C4_KeepPrecedence ==
  (CommandDone /\ ret.result.ok) =>
    \A nm \in Names(PlanActions.keep) \cap Names(PlanActions.remove) :
      \A g \in 1..Len(ret.result.cuts) :
        ~(/\ ret.result.cuts[g].start <= PlanTiming[nm].start
          /\ PlanTiming[nm].end <= ret.result.cuts[g].end)

\* the session of the scenario: a score of 28 measures at 100 BPM in 4/4
\* with the four markers at measures 1, 5, 13 and 21, every measure 2.4 s
\* long, timed from the score
ScenarioSession ==
  /\ ~ed.using_text_tempo
  /\ me.score \in {ScenarioScore, SpacedScenarioScore}
  /\ ed.sections = analyze_structure(me.score)
  /\ me.sections = ed.sections
  /\ DOMAIN me.measure_times = 1..Len(me.score[1])
  /\ \A n \in DOMAIN me.measure_times :
       /\ me.measure_times[n].start = (n - 1) * ((24 * TimeUnit) \div 10)
       /\ me.measure_times[n].end = n * ((24 * TimeUnit) \div 10)

\* the command of the scenario, with the names as the markers write them
ScenarioCommandGiven ==
  \/ me.score = ScenarioScore /\ ret.command = ScenarioCommand
  \/ me.score = SpacedScenarioScore /\ ret.command = SpacedScenarioCommand

Spans(cuts) == [g \in 1..Len(cuts) |-> <<cuts[g].start, cuts[g].end>>]

\* C5: in the scenario session the command "remove Intro and Verse2"
\* (first and last of the four sections) succeeds with exactly the cut
\* points [0.0, 9.6] and [48.0, 67.2].
C5_ScenarioCuts ==
  (CommandDone /\ ScenarioSession /\ ScenarioCommandGiven) =>
    /\ ret.result.ok
    /\ Spans(ret.result.cuts) =
         <<<<0, (96 * TimeUnit) \div 10>>, <<48 * TimeUnit, (672 * TimeUnit) \div 10>>>>

----------------------------------------------------------------------------

\* the answer holds exactly the sections of the table with both boundary
\* measures in it, each with the start of its first measure, the end of its
\* last one and their difference
ResolvedFrom(timing, sections, table) ==
  ~timing.none =>
    /\ DOMAIN timing.map =
         {nm \in DOMAIN sections :
            sections[nm][1] \in DOMAIN table /\ sections[nm][2] \in DOMAIN table}
    /\ \A nm \in DOMAIN timing.map :
         /\ {"start", "end", "duration"} \subseteq DOMAIN timing.map[nm]
         /\ timing.map[nm].start = table[sections[nm][1]].start
         /\ timing.map[nm].end = table[sections[nm][2]].end
         /\ timing.map[nm].duration = timing.map[nm].end - timing.map[nm].start

\* C6: a resolved section timing holds exactly the sections whose start and
\* end measure are both in the active measure table, with start =
\* table[start_measure].start, end = table[end_measure].end and duration =
\* end - start; a section with a missing boundary is left out, and no
\* record lacks start or end.
C6_ResolvedSections ==
  /\ (ret.op = "get_timing_info" /\ ~ed.using_text_tempo) =>
       ResolvedFrom(ret.timing, me.sections, me.measure_times)
  /\ ret.op = "get_section_timing" =>
       ResolvedFrom(ret.timing, sp.sections, sp.measure_times)

\* a record of a measure in x/8: numerator / 3 beats at two thirds of the
\* tempo, lasting beats * 60 / effective tempo, which is numerator * 60 /
\* (2 * tempo)
CompoundTimed(rec) ==
  rec.time_signature[2] = 8 =>
    /\ 3 * rec.beats_per_measure = rec.time_signature[1] * Twelfths
    /\ 3 * rec.effective_tempo = 2 * rec.tempo * Twelfths
    /\ rec.duration * rec.tempo * 2 = rec.time_signature[1] * 60 * TimeUnit

\* C7: a measure with denominator 8 that is not a countdown measure has
\* beats_per_measure = numerator / 3, effective_tempo = tempo * 2/3 and
\* duration = beats_per_measure * 60 / effective_tempo, in both builders.
C7_CompoundMeasures ==
  /\ \A n \in DOMAIN me.measure_times : CompoundTimed(me.measure_times[n])
  /\ \A n \in DOMAIN sp.measure_times :
       ~sp.measure_times[n].is_countdown => CompoundTimed(sp.measure_times[n])

\* a measure in 6/8 at 80: 2 beats, 2.25 s
SixEightAtEighty(rec) ==
  /\ rec.time_signature = <<6, 8>>
  /\ rec.tempo = 80
  /\ rec.beats_per_measure = 2 * Twelfths
  /\ 4 * rec.duration = 9 * TimeUnit

\* both builders have timed a measure in 6/8 at 80
C7_Witness ==
  /\ \E n \in DOMAIN me.measure_times : SixEightAtEighty(me.measure_times[n])
  /\ \E n \in DOMAIN sp.measure_times : SixEightAtEighty(sp.measure_times[n])

\* C8: when the score has a countdown measure, the timeline built by
\* MusicEditor.process_files gives measure 1 a duration of exactly 5 beats at
\* the current tempo, 5 * 60 / tempo, and every later measure starts after
\* that lead-in.
C8_CountdownLeadIn ==
  (EditorBuilt /\ has_countdown_measure(me.score).has_countdown) =>
    /\ 1 \in DOMAIN me.measure_times
    /\ me.measure_times[1].duration * me.measure_times[1].tempo = CountdownBeats * 60 * TimeUnit
    /\ \A n \in DOMAIN me.measure_times :
         n > 1 => me.measure_times[n].start >= me.measure_times[1].start + me.measure_times[1].duration

----------------------------------------------------------------------------

\* C9: after a beat file is processed, initial_offset is the raw time of the
\* first beat and every entry of the measure map has real_start_time -
\* initial_offset = start_time and real_end_time - initial_offset = end_time.
C9_OffsetRoundTrip ==
  DOMAIN ttp.measure_map # {} =>
    /\ ttp.initial_offset = inp[1].time
    /\ \A n \in DOMAIN ttp.measure_map :
         /\ ttp.measure_map[n].real_start_time - ttp.initial_offset = ttp.measure_map[n].start_time
         /\ ttp.measure_map[n].real_end_time - ttp.initial_offset = ttp.measure_map[n].end_time

\* a file whose first beat is not at 0 has been mapped to two measures or more
C9_Witness ==
  /\ ret.op = "text_tempo"
  /\ ret.ok
  /\ ttp.initial_offset > 0
  /\ Cardinality(DOMAIN ttp.measure_map) >= 2

\* a beat file that is empty, has a beat type that is not 's', 'w' or 'l'
\* once stripped and lowercased, or has no strong beat
Defective(rows) ==
  \/ rows = <<>>
  \/ \E i \in 1..Len(rows) : Normalize(rows[i].type) \notin ValidBeatTypes
  \/ \A i \in 1..Len(rows) : Normalize(rows[i].type) # "s"

\* C10: process_tempo_file fails for an empty file, for a beat type that is
\* not 's', 'w' or 'l' after stripping and lowercasing, and for a file without
\* a strong beat; it never returns success with an empty measure map, in
\* either beat-map processor.
C10_DefectiveFilesFail ==
  /\ ret.op = "text_tempo" =>
       /\ Defective(inp) => ~ret.ok
       /\ ret.ok => DOMAIN ttp.measure_map # {}
  /\ ret.op = "tempo_map" =>
       /\ Defective(inp) => ~ret.ok
       /\ ret.ok => DOMAIN tmp.measure_map # {}

----------------------------------------------------------------------------

\* the start and end of every measure of a table
TableSpans(table) == [n \in DOMAIN table |-> <<table[n].start, table[n].end>>]

\* the table of the one source of the session: the beat map in real times
\* when a .txt tempo file was given, else the score timeline
SourceSpans ==
  IF ret.tempo_file.kind = "txt"
  THEN [n \in DOMAIN ttp.measure_map |->
          <<ttp.measure_map[n].real_start_time, ttp.measure_map[n].real_end_time>>]
  ELSE TableSpans(me.measure_times)

\* every section of a section timing runs from the start of its first
\* measure to the end of its last measure in the table of the source
ReadsSource(timing_info) ==
  \A nm \in DOMAIN timing_info :
    /\ timing_info[nm].start_measure \in DOMAIN SourceSpans
    /\ timing_info[nm].end_measure \in DOMAIN SourceSpans
    /\ timing_info[nm].start = SourceSpans[timing_info[nm].start_measure][1]
    /\ timing_info[nm].end = SourceSpans[timing_info[nm].end_measure][2]

FilesDone == ret.op = "process_files" /\ ret.ok

\* C11: after a successful process_files, get_tempo_data reports the source
\* 'text_tempo_map' exactly when a .txt tempo file was given and
\* 'score_tempo' otherwise, and get_measure_times, get_tempo_data,
\* get_timing_info and the timing of process_command all read the table of
\* that one source.
C11_OneTimingSource ==
  FilesDone =>
    /\ ~get_tempo_data(ed, me, ttp).none
    /\ get_tempo_data(ed, me, ttp).source =
         (IF ret.tempo_file.kind = "txt" THEN "text_tempo_map" ELSE "score_tempo")
    /\ TableSpans(get_tempo_data(ed, me, ttp).measure_times) = SourceSpans
    /\ ~get_measure_times(ed, me, ttp).none
    /\ TableSpans(get_measure_times(ed, me, ttp).map) = SourceSpans
    /\ ~get_timing_info(ed, me, ttp).none
    /\ ReadsSource(get_timing_info(ed, me, ttp).map)
    /\ command_timing(ed, me, ttp).ok
    /\ ReadsSource(command_timing(ed, me, ttp).timing_info)

\* a session on a beat map whose first beat is not at 0, with two sections
\* timed and the tempo changes of the score processor cleared
C11_Witness ==
  /\ FilesDone
  /\ ret.tempo_file.kind = "txt"
  /\ ttp.initial_offset > 0
  /\ DOMAIN me.tempo_changes = {}
  /\ Cardinality(DOMAIN get_timing_info(ed, me, ttp).map) >= 2

\* C12: for a score with a section and a time signature and a text tempo
\* map that TextTempoProcessor accepts (not empty, valid beat types, a strong
\* beat), process_files succeeds and get_measure_times then returns a table
\* that is not empty and has one entry per measure of the beat map, also
\* when the last row is a strong beat and the last measure has no length.
C12_AcceptedMapsSucceed ==
  (/\ ret.op = "process_files"
   /\ ret.tempo_file.kind = "txt"
   /\ ~Defective(ret.tempo_file.rows)
   /\ DOMAIN analyze_structure(me.score) # {}
   /\ analyze_time_signature(me.score) # NoTS) =>
    /\ ret.ok
    /\ ~get_measure_times(ed, me, ttp).none
    /\ DOMAIN get_measure_times(ed, me, ttp).map = DOMAIN ttp.measure_map
    /\ DOMAIN ttp.measure_map # {}

\* a preview was generated from an audio for a keep or remove result
PreviewDone == ret.op = "generate_preview" /\ ~ret.preview.none

\* the keep points among the edit points of the preview
KeepPoints == SelectSeq(ret.preview.edit_points, LAMBDA p : p.type = "keep")

\* the sections the result asks to keep: the listed ones the timing map
\* knows, or the ones of the timing map that are not listed
AskedToKeep ==
  IF ret.edit_result.action = "keep"
  THEN Names(ret.edit_result.sections) \cap DOMAIN ret.timing.map
  ELSE DOMAIN ret.timing.map \ Names(ret.edit_result.sections)

\* C13: generate_preview keeps exactly the listed sections for 'keep' and
\* exactly the sections of the timing map that are not listed for 'remove';
\* it emits one keep interval per kept section, each with the section's
\* original times, in ascending order of original start time whatever the
\* order of the names
C13_PreviewKeeps ==
  PreviewDone =>
    /\ {KeepPoints[i].section : i \in 1..Len(KeepPoints)} = AskedToKeep
    /\ Len(KeepPoints) = Cardinality(AskedToKeep)
    /\ \A i \in 1..Len(KeepPoints) :
         /\ KeepPoints[i].original_start = ret.timing.map[KeepPoints[i].section].start
         /\ KeepPoints[i].original_end = ret.timing.map[KeepPoints[i].section].end
    /\ \A i \in 1..(Len(KeepPoints) - 1) :
         KeepPoints[i].original_start <= KeepPoints[i + 1].original_start

\* process_files ended because the score processor's
\* _calculate_measure_times returned failure
EditorTimesFailed ==
  /\ ret.op = "process_files"
  /\ ret.err = "Error processing score"
  /\ ~ME_calculate_measure_times(me).ok

\* process_score ended because _calculate_measure_times returned failure
ProcessorTimesFailed ==
  /\ ret.op = "process_score"
  /\ ~ret.ok
  /\ sp.tempo_changes # <<>>
  /\ ~SP_calculate_measure_times(sp).ok

\* C14: when _calculate_measure_times returns failure, also from inside its
\* loop (a tempo of 0 at a later measure), the measure_times the processor
\* shows afterwards is empty, never a table of the measures before the
\* failure; for both timeline builders.
C14_NoPartialTable ==
  /\ EditorTimesFailed => DOMAIN me.measure_times = {}
  /\ ProcessorTimesFailed => DOMAIN sp.measure_times = {}

\* C15: MusicEditor.get_section_timing(section_name) returns a record or
\* None in every state the editor can be in, and never raises.
C15_SectionTimingNeverRaises ==
  ret.op = "editor_get_section_timing" => ~ret.timing.raises

\* a record of a measure whose denominator is not 8: numerator * 4 /
\* denominator beats at tempo * denominator / 4, lasting beats * 60 /
\* effective tempo (the duration is compared in milliseconds); in x/4 that
\* is numerator beats and numerator * 60 / tempo
SimpleTimed(rec) ==
  rec.time_signature[2] # 8 =>
    /\ rec.beats_per_measure * rec.time_signature[2] = rec.time_signature[1] * 4 * Twelfths
    /\ rec.effective_tempo * 4 = rec.tempo * rec.time_signature[2] * Twelfths
    /\ rec.duration % 1000 = 0
    /\ (rec.duration \div 1000) * rec.effective_tempo = rec.beats_per_measure * 60 * 1000
    /\ rec.time_signature[2] = 4 =>
         /\ rec.beats_per_measure = rec.time_signature[1] * Twelfths
         /\ rec.duration * rec.tempo = rec.time_signature[1] * 60 * TimeUnit

\* C16: a measure whose denominator is not 8 and that is not a countdown
\* measure has beats_per_measure = numerator * (4 / denominator),
\* effective_tempo = tempo * (denominator / 4) and duration =
\* beats_per_measure * 60 / effective_tempo, which for denominator 4 is
\* numerator beats and numerator * 60 / tempo; in both builders.
C16_SimpleMeasures ==
  /\ \A n \in DOMAIN me.measure_times : SimpleTimed(me.measure_times[n])
  /\ \A n \in DOMAIN sp.measure_times :
       ~sp.measure_times[n].is_countdown => SimpleTimed(sp.measure_times[n])

\* a measure in 2/2 at 100: 4 beats at 50, 4.8 s
TwoTwoAtHundred(rec) ==
  /\ rec.time_signature = <<2, 2>>
  /\ rec.tempo = 100
  /\ rec.beats_per_measure = 4 * Twelfths
  /\ rec.effective_tempo = 50 * Twelfths
  /\ 10 * rec.duration = 48 * TimeUnit

\* both builders have timed a measure in 2/2 at 100
C16_Witness ==
  /\ \E n \in DOMAIN me.measure_times : TwoTwoAtHundred(me.measure_times[n])
  /\ \E n \in DOMAIN sp.measure_times : TwoTwoAtHundred(sp.measure_times[n])

\* the tempos of the tempo changes with the greatest measure number that is
\* not above n (none when every change is above n)
ActiveTempos(changes, n) ==
  LET Reached == {i \in 1..Len(changes) : changes[i].measure <= n}
      Latest == {i \in Reached : \A j \in Reached : changes[j].measure <= changes[i].measure}
  IN {changes[i].tempo : i \in Latest}

\* every measure of the table is timed at the tempo of the latest change at
\* or before it
TempoApplied(st) ==
  \A n \in DOMAIN st.measure_times :
    st.measure_times[n].tempo \in ActiveTempos(st.tempo_changes, n)

\* C17: the tempo a timeline builder applies to measure n is the tempo of the
\* tempo change with the greatest measure number <= n, so a change at
\* measure m never affects a measure below m; in both builders.
C17_ActiveTempo ==
  /\ EditorBuilt => TempoApplied(me)
  /\ ProcessorBuilt => TempoApplied(sp)

\* a tempo-change list that starts at measure 1 and ascends by measure
StartsAtOneAscending(changes) ==
  /\ changes # <<>>
  /\ changes[1].measure = 1
  /\ \A i \in 1..Len(changes) : \A j \in 1..Len(changes) :
       i < j => changes[i].measure <= changes[j].measure

\* C18: whenever a timeline is built, the tempo-change list it is built
\* from is ordered ascending by measure and its first entry has measure 1,
\* whichever way the list is produced.
C18_TempoChangesOrdered ==
  /\ EditorBuilt => StartsAtOneAscending(me.tempo_changes)
  /\ ProcessorBuilt => StartsAtOneAscending(sp.tempo_changes)

\* a score whose measure 1 is in 9/4 and whose measure 2 carries a signature
\* that differs from it in numerator or denominator
CountdownScore(score) ==
  LET Differs(measures) ==
        /\ Len(measures) >= 2
        /\ measures[1].ts = <<9, 4>>
        /\ measures[2].ts # NoTS
        /\ measures[2].ts # measures[1].ts
  IN Differs(UniqueMeasures(score))

\* C19: has_countdown_measure reports a countdown exactly when measure 1 is
\* in 9/4 and the signature of measure 2 differs from it in numerator or in
\* denominator (9/4 then 9/8 is a countdown, 9/4 then 9/4 is not), and the
\* main time signature is then that of measure 2, which the processor takes
\* as the signature of the score.
C19_CountdownDetection ==
  ProcessorBuilt =>
    /\ has_countdown_measure(sp.score).has_countdown = CountdownScore(sp.score)
    /\ CountdownScore(sp.score) =>
         /\ has_countdown_measure(sp.score).main = UniqueMeasures(sp.score)[2].ts
         /\ sp.time_signature = UniqueMeasures(sp.score)[2].ts

\* the measure map of a processor has the keys 1..k for its k strong beats;
\* measure i < k runs from the adjusted time of strong beat i to that of
\* strong beat i + 1, measure k from the last strong beat to the last row
MeasuresOfStrongBeats(st) ==
  LET k == Len(st.strong_beats)
      final == st.beat_timings[Len(st.beat_timings)].time
  IN /\ DOMAIN st.measure_map = 1..k
     /\ \A i \in 1..k :
          /\ st.measure_map[i].start_time = BeatTime(st.beat_timings, st.strong_beats[i])
          /\ st.measure_map[i].end_time =
               IF i < k THEN BeatTime(st.beat_timings, st.strong_beats[i + 1]) ELSE final

\* C20: for a beat file with k strong beats the measure map has exactly the
\* keys 1..k, measure i < k runs from the adjusted time of strong beat i to
\* that of strong beat i + 1 and measure k from the last strong beat to the
\* last row of the file, whatever number the beats start from; in both
\* beat-map processors.
C20_MeasuresFromStrongBeats ==
  /\ (ret.op = "text_tempo" /\ ret.ok) => MeasuresOfStrongBeats(ttp)
  /\ (ret.op = "tempo_map" /\ ret.ok /\ tmp.strong_beats # <<>>) => MeasuresOfStrongBeats(tmp)

\* total_duration of a processor is the raw time of the last row of the
\* file less the initial offset, and the final measure ends there
DurationOfLastRow(st, rows) ==
  /\ st.total_duration = rows[Len(rows)].time - st.initial_offset
  /\ st.strong_beats # <<>> =>
       st.measure_map[Len(st.strong_beats)].end_time = st.total_duration

\* C21: after a beat map is processed, total_duration is the adjusted time
\* of the last row, raw time less initial offset, in both beat-map
\* processors, and it is the adjusted end_time of the final measure.
C21_TotalDuration ==
  /\ (ret.op = "text_tempo" /\ ret.ok) => DurationOfLastRow(ttp, inp)
  /\ (ret.op = "tempo_map" /\ ret.ok) => DurationOfLastRow(tmp, inp)

\* the duration of the measure n of the timeline in use
ActiveMeasureLength(n) == get_measure_times(ed, me, ttp).map[n].duration

\* the first and the last keep point of the preview and their sections
FirstKeep == KeepPoints[1]
LastKeep == KeepPoints[Len(KeepPoints)]

\* C22: with fade-in the first keep interval starts at max(0, original
\* start - 2d) and with fade-out the last keep interval ends at min(length
\* of the audio, original end + 2d), d being the duration of one measure of
\* the timeline in use (2.4 s in 4/4 at 100), for every signature and tempo.
C22_FadeMargins ==
  (PreviewDone /\ ap.previews = 1) =>
    /\ ret.fade_in =>
         FirstKeep.start_time =
           Max({0, FirstKeep.original_start
                     - 2 * ActiveMeasureLength(ret.timing.map[FirstKeep.section].start_measure)})
    /\ ret.fade_out =>
         LastKeep.end_time =
           Min({RecordingLength * 1000,
                LastKeep.original_end
                  + 2 * ActiveMeasureLength(ret.timing.map[LastKeep.section].end_measure)})

\* the segment cut for the keep point i starts and ends where its section does
CutAtStart(i) == ret.preview.segments[i].start_ms = KeepPoints[i].original_start \div 1000
CutAtEnd(i) == ret.preview.segments[i].end_ms = KeepPoints[i].original_end \div 1000

\* C23: the end of a kept interval moves to the end of the audio only with
\* fade-out, for the last kept interval when its name holds 'outro' or
\* 'ending'; without fade-out every segment, the last one included, ends at
\* its section's original end (and without fade-in starts at its original
\* start), and the intervals between the first and the last are never widened.
C23_EndOfAudioOnlyWithFadeOut ==
  (PreviewDone /\ ap.previews = 1) =>
    \A i \in 1..Len(KeepPoints) :
      /\ ~ret.fade_out => CutAtEnd(i)
      /\ ~ret.fade_in => CutAtStart(i)
      /\ (1 < i /\ i < Len(KeepPoints)) => (CutAtStart(i) /\ CutAtEnd(i))

\* the margin a fade gave the first segment at its start and the last
\* segment at its end, in milliseconds
StartMargin == FirstKeep.original_start \div 1000 - ret.preview.segments[1].start_ms
EndMargin ==
  ret.preview.segments[Len(KeepPoints)].end_ms - LastKeep.original_end \div 1000

\* C24: whenever a fade-in (fade-out) is requested a fade is applied to the
\* first (last) kept interval; its length is the widened margin when there
\* is one and else the default, 500 ms, or up to 2000 ms for a last section
\* named outro or ending; the length is always positive, also when the
\* interval starts at 0 or the audio ends at the section's end.
C24_FadeLengths ==
  (PreviewDone /\ ap.previews = 1) =>
    /\ ret.fade_in =>
         /\ ret.preview.segments[1].fade_in > 0
         /\ ret.preview.segments[1].fade_in = IF StartMargin > 0 THEN StartMargin ELSE 500
    /\ ret.fade_out =>
         /\ ret.preview.segments[Len(KeepPoints)].fade_out > 0
         /\ ret.preview.segments[Len(KeepPoints)].fade_out =
              IF Lower(LastKeep.section) \in {"outro", "ending"}
              THEN (IF EndMargin > 0 THEN Min({2000, EndMargin}) ELSE 2000)
              ELSE (IF EndMargin > 0 THEN EndMargin ELSE 500)

\* C25: processing a beat file on a processor that has already processed
\* one leaves the measure_map, beat timings, strong beats, initial_offset
\* and total_duration that a fresh processor has after processing that
\* file: no entry of an earlier map survives, also when the new file has
\* fewer strong beats; in both beat-map processors.
C25_ReprocessingRebuilds ==
  /\ (ret.op = "text_tempo" /\ ret.ok) =>
       ttp = TTP_process_tempo_file(TTP_new, inp, <<4, 4>>).st
  /\ (ret.op = "tempo_map" /\ ret.ok) =>
       tmp = TMP_process_tempo_file(TMP_new, inp, <<4, 4>>).st

\* C26: _validate_command accepts a command exactly when every name in it
\* equals an available name up to letter case and the interchange of
\* spaces and underscores, in the command name or in the available name;
\* an accepted command carries, in order, available names that its names
\* matched, and a command with an unmatched name is rejected with
\* INVALID_SECTIONS.
C26_NamesMatchUpToCaseAndSeparator ==
  (/\ ret.op = "validate_command"
   /\ ret.command.error = ""
   /\ ret.command.action \in {"keep", "remove"}
   /\ ret.command.sections /= <<>>) =>
    LET Plain(s) == [i \in 1..Len(s) |->
                       IF s[i] = "_" THEN " " ELSE Lower(s[i])]
        available == ret.available_sections
        sections == ret.command.sections
        Matched(i) == \E j \in 1..Len(available) :
                        Plain(available[j]) = Plain(sections[i])
    IN IF \A i \in 1..Len(sections) : Matched(i)
       THEN /\ ret.result.error = ""
            /\ Len(ret.result.sections) = Len(sections)
            /\ \A i \in 1..Len(sections) :
                 \E j \in 1..Len(available) :
                   /\ ret.result.sections[i] = available[j]
                   /\ Plain(available[j]) = Plain(sections[i])
       ELSE ret.result.error = "INVALID_SECTIONS"

\* C27: every generate_preview cuts from the recording as it was loaded:
\* a preview generated after earlier previews is the preview the same
\* request gives on the freshly loaded recording, and a preview that
\* fails leaves the stored audio as it was.
C27_PreviewFromLoadedRecording ==
  [][(ret'.op = "generate_preview" /\ ap.audio_segment /= <<>>) =>
       /\ ret'.preview =
            generate_preview(<<[from |-> 0, to |-> RecordingLength]>>,
                             ret'.edit_result, ret'.timing,
                             ret'.fade_in, ret'.fade_out)
       /\ ret'.preview.none => ap'.audio_segment = ap.audio_segment]_vars

\* C28: the cut points that plan_edits returns depend on which sections
\* are removed and not on the order in which the command names them, also
\* when two of the sections start at the same time: every rearrangement
\* of the remove list gives the cut points of the command.
C28_CutsIndependentOfOrder ==
  (ret.op = "process_command" /\ ret.plan.ok) =>
    LET timing_info == command_timing(ed, me, ttp).timing_info
        actions == parse_command(ret.command)
        n == Len(actions.remove)
        Rearranged(p) == [i \in 1..n |-> actions.remove[p[i]]]
    IN \A p \in {q \in [1..n -> 1..n] : \A i, j \in 1..n : q[i] = q[j] => i = j} :
         plan_edits(timing_info, [actions EXCEPT !.remove = Rearranged(p)]).cuts
           = ret.plan.cuts

\* a record of a measure that lasts numerator * (4 / denominator) * 60 /
\* tempo seconds (the duration is compared in milliseconds)
QuarterTimed(rec) ==
  /\ rec.duration % 1000 = 0
  /\ (rec.duration \div 1000) * rec.tempo * rec.time_signature[2]
       = rec.time_signature[1] * 4 * 60 * 1000

\* C29: every measure outside a countdown lasts numerator * (4 /
\* denominator) * 60 / tempo, the tempo counting quarter notes per minute,
\* whatever its time signature: the denominators 2, 4, 8 and 16 are timed
\* by the one rule; in both builders.
C29_QuarterNoteTempo ==
  /\ \A n \in DOMAIN me.measure_times : QuarterTimed(me.measure_times[n])
  /\ \A n \in DOMAIN sp.measure_times :
       ~sp.measure_times[n].is_countdown => QuarterTimed(sp.measure_times[n])

\* C30: after every process_files call, using_text_tempo is true only if
\* the editor's text_tempo_processor holds a non-empty measure map and the
\* call that made it succeeded; a call that fails keeps the timing source
\* of the state before it, and keeps the score tempo changes when that
\* source is the score.
C30_TextSourceHasItsMap ==
  [][ret'.op = "process_files" =>
       /\ ed'.using_text_tempo =>
            /\ ed'.has_ttp
            /\ DOMAIN ttp'.measure_map /= {}
       /\ ~ret'.ok =>
            /\ ed'.using_text_tempo = ed.using_text_tempo
            /\ ~ed.using_text_tempo => me'.tempo_changes = me.tempo_changes]_vars

====
